---- MODULE Spec2Model ----
(***************************************************************************)
(* State-machine model of the AmneziaWG management bot: the clients table  *)
(* and its IP-connection rows (database/database.py), the conversation     *)
(* handlers (handlers/admin_handlers.py), the backup service               *)
(* (services/backup_service.py) and the live peer set of the interface.    *)
(* One action per handler; a handler runs from its first line to its       *)
(* return.                                                                 *)
(***************************************************************************)
EXTENDS Integers, Sequences, FiniteSets, TLC

-----------------------------------------------------------------------------
(* Bounds of the model *)

\* ids the wizard draws from the AUTOINCREMENT sequence of clients
MaxId == 1
\* ids a restore may draw beyond the wizard's
MaxRestored == 1
\* key pairs that exist at one time
MaxKeys == 2
\* archives the backup directory holds
MaxArchives == 1
\* observations counted in one client_ip_connections row
MaxCount == 2
\* pool_size of the connection pool
PoolSize == 2
\* connections opened in one run
MaxConns == 5
\* clients stored when the list is opened
MaxListed == 21
\* the largest page number a clients_page button asks for
MaxPage == 3

-----------------------------------------------------------------------------
(* Values *)

\* Python None / SQL NULL in an integer-typed place
NULL == -1
\* a key that get() does not find in the FSM data
ABSENT == -2
\* None in a text-typed place, and a text key that is absent from the FSM data
NoneText == <<"None">>
AbsentText == <<"absent">>

\* Texts are sequences of characters.
T_ab == <<"a", "b">>
T_c_d == <<"c", "-", "d">>
T_x == <<"x">>
T_bang == <<"a", "!">>
T_sp_ab == <<" ", "a", "b">>
T_blank == <<" ">>
T_host1 == <<"h", "1">>
T_host2 == <<"h", "2">>
T_dns1 == <<"1", ".", "1">>
T_dns2 == <<"2", ".", "2", ",", " ", "1", ".", "1">>
T_dns_bad == <<"1", ".", "1", ",", " ", "x">>

Letters == {"a", "b", "c", "d", "h", "x"}
Digits == {"0", "1", "2", "5"}
\* a letter outside ASCII: the Cyrillic zhe, written by its code point
OtherLetters == {"U+0436"}
T_zhe == <<"U+0436", "U+0436">>
\* names of 32 and of 33 characters
T_len32 == [k \in 1..32 |-> "a"]
T_len33 == [k \in 1..33 |-> "a"]

\* str.isalnum() of one character: any Unicode letter or digit
IsAlnumChar(c) == c \in Letters \cup Digits \cup OtherLetters

RECURSIVE LStrip(_)
LStrip(s) == IF s # <<>> /\ Head(s) = " " THEN LStrip(Tail(s)) ELSE s

RECURSIVE RStrip(_)
RStrip(s) ==
    IF s # <<>> /\ s[Len(s)] = " " THEN RStrip(SubSeq(s, 1, Len(s) - 1)) ELSE s

\* str.strip()
Strip(s) == RStrip(LStrip(s))

\* str.replace(ch, '')
RECURSIVE Remove(_, _)
Remove(s, ch) ==
    IF s = <<>> THEN <<>>
    ELSE IF Head(s) = ch THEN Remove(Tail(s), ch)
    ELSE <<Head(s)>> \o Remove(Tail(s), ch)

DigitValue(c) ==
    CASE c = "0" -> 0 [] c = "1" -> 1 [] c = "2" -> 2 [] c = "5" -> 5

\* int(text): the value of a decimal numeral, NULL for ValueError
RECURSIVE Numeral(_, _)
Numeral(s, acc) ==
    IF s = <<>> THEN acc
    ELSE IF Head(s) \notin Digits THEN NULL
    ELSE Numeral(Tail(s), acc * 10 + DigitValue(Head(s)))

\* str.lower()
LowerChar(c) ==
    CASE c = "A" -> "a" [] c = "B" -> "b" [] c = "D" -> "d" [] c = "N" -> "n"
      [] OTHER -> c
Lower(t) == [k \in 1..Len(t) |-> LowerChar(t[k])]

\* sub in t
Contains(sub, t) ==
    \E k \in 0..(Len(t) - Len(sub)) : SubSeq(t, k + 1, k + Len(sub)) = sub

\* str.isalnum(): every character alphanumeric and at least one character
IsAlnum(s) == s # <<>> /\ \A i \in 1..Len(s) : IsAlnumChar(s[i])

\* the two tests process_client_name makes before it asks the database
NameLengthOk(name) == name # <<>> /\ Len(name) >= 2 /\ Len(name) <= 32
NameCharsOk(name) == IsAlnum(Remove(Remove(Remove(name, "-"), "_"), "."))

\* Byte counts exceed 32 bits: a count is gib * 1024^3 + rem.
\* kind "null" is NULL, kind "text" is the text 'unlimited' kept in the
\* INTEGER column traffic_limit.
NullBytes == [kind |-> "null", gib |-> 0, rem |-> 0]
IntBytes(g, r) == [kind |-> "int", gib |-> g, rem |-> r]
TextUnlimited == [kind |-> "text", gib |-> 0, rem |-> 0]

\* the buttons of get_traffic_limit_keyboard
TrafficChoices == {"5", "10", "30", "100", "unlimited"}

\* int() of a button's number
ToInt(s) ==
    CASE s = "5" -> 5
      [] s = "10" -> 10
      [] s = "30" -> 30
      [] s = "100" -> 100

\* gb_limit * 1024 * 1024 * 1024, None for "unlimited"
traffic_limit_bytes(choice) ==
    IF choice # "unlimited" THEN IntBytes(ToInt(choice), 0) ELSE NullBytes

\* What SQLite keeps when text is bound to the INTEGER column traffic_limit:
\* a numeral becomes that integer, any other text stays text.
StoredTrafficText(choice) ==
    IF choice = "unlimited" THEN TextUnlimited ELSE IntBytes(0, ToInt(choice))

\* the time_limit codes offered (hours from now)
TimeCodes == {"1h", "1d", "unlimited"}
ExpiryOf(code) ==
    CASE code = "1h" -> 1
      [] code = "1d" -> 24
      [] code = "unlimited" -> NULL

-----------------------------------------------------------------------------
(* Deployment configuration *)

Users == {1, 2, 3}
admin_ids == {1}
\* host addresses of the server subnets, in allocation order
SubnetHosts == <<"10.0.0.2", "10.0.0.3">>
Subnet6Hosts == <<"fd00::2">>

-----------------------------------------------------------------------------
VARIABLES
    clients,       \* table clients: id -> row
    nextId,        \* AUTOINCREMENT sequence of clients
    ipConns,       \* table client_ip_connections: set of rows
    default_endpoint, \* bot_settings['default_endpoint']
    default_dns,   \* bot_settings['default_dns']
    pool,          \* DatabaseConnectionPool and the tasks that use it
    livePeers,     \* public keys of the peers on the live interface
    fsmState,      \* user -> FSM state
    fsmData,       \* user -> FSM data
    archives,      \* backup directory: file -> [members, clients] of the archive
    ipv6_enabled,  \* config.ipv6_enabled and config.server_ipv6_subnet
    createdBy,     \* history: stored row id -> the user whose wizard inserted it
    running,       \* handler tasks suspended at an await: task -> its locals
    last           \* the last event handled and what the handler answered

vars == <<clients, nextId, ipConns, default_endpoint, default_dns, pool, livePeers,
          fsmState, fsmData, archives, ipv6_enabled, createdBy, running, last>>

dbVars == <<clients, nextId, ipConns, createdBy>>
fsmVars == <<fsmState, fsmData>>
cfgVars ==
    <<default_endpoint, default_dns, archives, ipv6_enabled, pool, running>>

EmptyData ==
    [endpoint |-> AbsentText, name |-> AbsentText, has_ipv6 |-> "absent",
     expires_at |-> ABSENT, edit_client_id |-> ABSENT,
     custom_time_unit |-> "absent"]

\* dict.get(key) on text-typed and integer-typed keys
GetText(v) == IF v = AbsentText THEN NoneText ELSE v
GetInt(v) == IF v = ABSENT THEN NULL ELSE v

Ids == DOMAIN clients

\* the public keys that exist anywhere: in the table, on the interface, in
\* the archives
KeysInUse ==
    {clients[i].public_key : i \in DOMAIN clients} \cup livePeers
      \cup UNION {{archives[k].clients[j].public_key :
                       j \in DOMAIN archives[k].clients} : k \in DOMAIN archives}

-----------------------------------------------------------------------------
(* database/database.py *)

\* the columns of a row of clients that INSERT supplies or defaults
Row(c) ==
    [name |-> c.name, public_key |-> c.public_key, private_key |-> c.private_key,
     preshared_key |-> c.preshared_key, ip_address |-> c.ip_address,
     ipv6_address |-> c.ipv6_address, has_ipv6 |-> c.has_ipv6,
     endpoint |-> c.endpoint, expires_at |-> c.expires_at,
     traffic_limit |-> c.traffic_limit, traffic_used |-> IntBytes(0, 0),
     is_active |-> c.is_active, is_blocked |-> c.is_blocked,
     last_ip |-> c.last_ip, daily_ips |-> c.daily_ips, owner_id |-> c.owner_id]

\* the empty string in a key-typed place; generated keys are 1, 2, ...
NoKey == 0

\* Client(...) with the dataclass defaults
NewClient ==
    [id |-> NULL, name |-> <<>>, public_key |-> NoKey, private_key |-> NoKey,
     preshared_key |-> NoKey, ip_address |-> "", ipv6_address |-> "",
     has_ipv6 |-> FALSE, endpoint |-> <<>>, expires_at |-> NULL,
     traffic_limit |-> NullBytes, traffic_used |-> IntBytes(0, 0),
     is_active |-> TRUE, is_blocked |-> FALSE, last_ip |-> "", daily_ips |-> "",
     owner_id |-> NULL]

\* Database._row_to_client: the Client built from a row.  owner_id is not
\* among the constructor's arguments, so it keeps the dataclass default.
row_to_client(id, row) ==
    [id |-> id, name |-> row.name, public_key |-> row.public_key,
     private_key |-> row.private_key, preshared_key |-> row.preshared_key,
     ip_address |-> row.ip_address, ipv6_address |-> row.ipv6_address,
     has_ipv6 |-> row.has_ipv6, endpoint |-> row.endpoint,
     expires_at |-> row.expires_at, traffic_limit |-> row.traffic_limit,
     traffic_used |-> row.traffic_used, is_active |-> row.is_active,
     is_blocked |-> row.is_blocked, last_ip |-> row.last_ip,
     daily_ips |-> row.daily_ips, owner_id |-> NULL]

\* Database.get_client; callers test the id with HasClient first
HasClient(tbl, id) == id \in DOMAIN tbl
get_client(tbl, id) == row_to_client(id, tbl[id])

\* Database.get_client_by_name: is there a row of that name
get_client_by_name(tbl, name) == {i \in DOMAIN tbl : tbl[i].name = name}

\* a table with UNIQUE on name only
InsertAcceptedByName(tbl, c) ==
    c.name # NoneText /\ \A i \in DOMAIN tbl : tbl[i].name # c.name

\* the constraints an INSERT can break: NOT NULL on name (the other NOT NULL
\* columns are never bound to None), UNIQUE on name and on ip_address
InsertAccepted(tbl, c) ==
    /\ c.name # NoneText
    /\ \A i \in DOMAIN tbl :
        tbl[i].name # c.name /\ tbl[i].ip_address # c.ip_address

\* Database.add_client, the INSERT having been accepted: the row gets id
add_client(tbl, id, c) ==
    [i \in DOMAIN tbl \cup {id} |-> IF i = id THEN Row(c) ELSE tbl[i]]

\* an UPDATE that binds every attribute of the Client
update_every_column(tbl, c) ==
    IF c.id \in DOMAIN tbl
    THEN [tbl EXCEPT ![c.id] = Row(c)]
    ELSE tbl

\* the constraints an UPDATE of a row can break: NOT NULL and UNIQUE on name
UpdateAccepted(tbl, c) ==
    /\ c.name # NoneText
    /\ \A i \in DOMAIN tbl \ {c.id} : tbl[i].name # c.name

\* Database.update_client: the UPDATE of the mutable columns WHERE id = ?
update_client(tbl, c) ==
    IF c.id \in DOMAIN tbl
    THEN [tbl EXCEPT ![c.id] =
            [@ EXCEPT !.name = c.name, !.endpoint = c.endpoint,
                      !.expires_at = c.expires_at,
                      !.traffic_limit = c.traffic_limit,
                      !.traffic_used = c.traffic_used,
                      !.is_active = c.is_active, !.is_blocked = c.is_blocked,
                      !.last_ip = c.last_ip, !.daily_ips = c.daily_ips,
                      !.ipv6_address = c.ipv6_address, !.has_ipv6 = c.has_ipv6]]
    ELSE tbl

\* a comparison that leaves equal counts out
bytes_gt(a, b) == a.gib > b.gib \/ (a.gib = b.gib /\ a.rem > b.rem)

\* a >= b of two INTEGER values
bytes_ge(a, b) == a.gib > b.gib \/ (a.gib = b.gib /\ a.rem >= b.rem)

\* Database.get_traffic_exceeded_clients: WHERE traffic_limit IS NOT NULL AND
\* traffic_used >= traffic_limit, in rowid order.  SQLite orders every
\* INTEGER before every TEXT, so no count reaches the text 'unlimited'.
RECURSIVE InIdOrder(_, _)
InIdOrder(tbl, ids) ==
    IF ids = {} THEN <<>>
    ELSE LET first == CHOOSE i \in ids : \A j \in ids : i <= j
         IN <<get_client(tbl, first)>> \o InIdOrder(tbl, ids \ {first})
get_traffic_exceeded_clients(tbl) ==
    InIdOrder(tbl, {i \in DOMAIN tbl :
                      /\ tbl[i].traffic_limit.kind # "null"
                      /\ tbl[i].traffic_limit.kind = "int"
                      /\ bytes_ge(tbl[i].traffic_used, tbl[i].traffic_limit)})

\* cursor.rowcount > 0 of update_client and of delete_client
RowFound(tbl, id) == id \in DOMAIN tbl

\* Database.delete_client: DELETE FROM clients WHERE id = ?
delete_client(tbl, id) == [i \in DOMAIN tbl \ {id} |-> tbl[i]]

\* a deletion that leaves the connection rows alone
keep_connections(conns, ids) == conns

\* ON DELETE CASCADE of client_ip_connections.client_id
cascade_delete(conns, ids) == {r \in conns : r.client_id \notin ids}

\* an observation that always inserts a row of count 1
insert_connection(conns, id, ip, day) ==
    conns \cup {[client_id |-> id, ip_address |-> ip, date |-> day,
                 connection_count |-> 1]}

\* Database.cleanup_old_ip_connections: DELETE ... WHERE date < cutoff_date,
\* the cutoff being today less days_to_keep.  Dates are day numbers; their
\* zero-padded text form compares the same way.
cleanup_old_ip_connections(conns, today, days_to_keep) ==
    {r \in conns : ~(r.date < today - days_to_keep)}

\* Database.add_client_ip_connection: UPDATE count + 1, INSERT when no row
\* matched
add_client_ip_connection(conns, id, ip, day) ==
    IF \E r \in conns : r.client_id = id /\ r.ip_address = ip /\ r.date = day
    THEN {IF r.client_id = id /\ r.ip_address = ip /\ r.date = day
          THEN [r EXCEPT !.connection_count = @ + 1] ELSE r : r \in conns}
    ELSE conns \cup {[client_id |-> id, ip_address |-> ip, date |-> day,
                      connection_count |-> 1]}

-----------------------------------------------------------------------------
(* services/awg_manager.py, services/settings_service.py *)

\* AWGManager.get_next_available_ip: the first host address of the subnet
\* that no stored client has, "" when there is none
RECURSIVE FirstFree(_, _)
FirstFree(hosts, used) ==
    IF hosts = <<>> THEN ""
    ELSE IF Head(hosts) \notin used THEN Head(hosts)
    ELSE FirstFree(Tail(hosts), used)

get_next_available_ip(tbl) ==
    FirstFree(SubnetHosts, {tbl[i].ip_address : i \in DOMAIN tbl})

get_next_available_ipv6(tbl) ==
    FirstFree(Subnet6Hosts, {tbl[i].ipv6_address : i \in DOMAIN tbl})

\* AWGManager.generate_keypair_with_preshared: a key no record, peer or
\* archive holds; keys are compared for equality only, so the first such
\* number stands for it
generate_keypair(used) == CHOOSE k \in 1..(Cardinality(used) + 1) :
                              k \notin used /\ \A j \in 1..(k - 1) : j \in used

\* AWGManager.add_peer_to_server / remove_peer_from_server: the command
\* either succeeds and changes the peer set, or fails and leaves it
add_peer_to_server(peers, key, ok) == IF ok THEN peers \cup {key} ELSE peers
remove_peer_from_server(peers, key, ok) == IF ok THEN peers \ {key} ELSE peers

\* SettingsService.validate_endpoint: non-empty, host-name characters only
validate_endpoint(e) ==
    e # <<>> /\ \A i \in 1..Len(e) : IsAlnumChar(e[i]) \/ e[i] \in {"-", "."}

\* a validation that takes every text
accept_any_dns(t) == TRUE

\* str.split(','): the parts between the commas
RECURSIVE SplitComma(_)
SplitComma(t) ==
    IF \A i \in 1..Len(t) : t[i] # ","
    THEN <<t>>
    ELSE LET k == CHOOSE i \in 1..Len(t) :
                    t[i] = "," /\ \A j \in 1..(i - 1) : t[j] # ","
         IN <<SubSeq(t, 1, k - 1)>> \o SplitComma(SubSeq(t, k + 1, Len(t)))

\* an address: digits and dots
IsAddress(p) == p # <<>> /\ \A i \in 1..Len(p) : p[i] \in Digits \cup {"."}

\* SettingsService.validate_dns_servers: a non-empty comma-separated list
\* whose parts, stripped, are addresses
validate_dns_servers(t) ==
    t # <<>> /\ \A k \in DOMAIN SplitComma(t) : IsAddress(Strip(SplitComma(t)[k]))

-----------------------------------------------------------------------------
(* the FSM storage of one user *)

\* the event a handler was called for, and the branch it answered with
Event(op, u, cid, arg, result) ==
    [op |-> op, user |-> u, client |-> cid, arg |-> arg, result |-> result]

\* an event whose answer carries data: a fetched Client, a listing, a count
EventWith(op, u, cid, arg, result, data) ==
    [op |-> op, user |-> u, client |-> cid, arg |-> arg, result |-> result,
     data |-> data]

\* the history of a table after rows were deleted
Forget(hist, tbl) == [i \in DOMAIN hist \cap DOMAIN tbl |-> hist[i]]

\* a handler that ends without touching the FSM storage
KeepConversation(u) == UNCHANGED fsmVars

\* state.clear()
Clear(u) ==
    /\ fsmState' = [fsmState EXCEPT ![u] = "none"]
    /\ fsmData' = [fsmData EXCEPT ![u] = EmptyData]

\* the tasks that use the pool
PoolTasks == 1..(PoolSize + 1)

IdleTask == [pc |-> "idle", conn |-> 0, temp |-> FALSE, made |-> 0]

\* DatabaseConnectionPool.__init__
NewPool ==
    [connections |-> <<>>, available |-> <<>>, initialized |-> FALSE,
     closed |-> {}, opened |-> 0, closing |-> 0,
     tasks |-> [t \in PoolTasks |-> IdleTask]]

\* the pool after Database.init_db: initialize() has opened pool_size
\* connections
InitializedPool ==
    [NewPool EXCEPT !.connections = [k \in 1..PoolSize |-> k],
                    !.available = [k \in 1..PoolSize |-> k],
                    !.initialized = TRUE, !.opened = PoolSize]

InitRest ==
    /\ clients = <<>>
    /\ nextId = 1
    /\ ipConns = {}
    /\ default_endpoint = <<>>
    /\ default_dns = T_dns1
    /\ livePeers = {}
    /\ fsmState = [u \in Users |-> "none"]
    /\ fsmData = [u \in Users |-> EmptyData]
    /\ archives = <<>>
    /\ ipv6_enabled \in BOOLEAN
    /\ createdBy = <<>>
    /\ running = <<>>
    /\ last = Event("start", 0, 0, "", "ok")

Init == InitRest /\ pool = NewPool

-----------------------------------------------------------------------------
(* database/database.py: DatabaseConnectionPool *)

\* a release that forgets the connection
dropped_release(avail, conn) == avail

\* self._available.append(conn)
pooled_release(avail, conn) == Append(avail, conn)

\* the body of acquire once the pool is initialized: a temporary connection
\* when _available is empty, _available.pop() otherwise
AcquireBody(p, t) ==
    IF p.available = <<>>
    THEN [p EXCEPT !.opened = @ + 1,
                   !.tasks[t] = [pc |-> "holding", conn |-> p.opened + 1,
                                 temp |-> TRUE, made |-> 0]]
    ELSE [p EXCEPT !.available = SubSeq(@, 1, Len(@) - 1),
                   !.tasks[t] = [pc |-> "holding",
                                 conn |-> p.available[Len(p.available)],
                                 temp |-> FALSE, made |-> 0]]

PoolFrame ==
    <<clients, nextId, ipConns, createdBy, livePeers, fsmState, fsmData,
      default_endpoint, default_dns, archives, ipv6_enabled, running>>

PoolEvent(op, t, p) ==
    Event(op, t, p.tasks[t].conn, "",
          IF p.tasks[t].pc = "init" THEN "initializing"
          ELSE IF p.tasks[t].temp THEN "temp" ELSE "pooled")

\* async with pool.acquire(): entry
pool_acquire(t) ==
    /\ pool.tasks[t].pc = "idle"
    /\ IF ~pool.initialized
       THEN pool' = [pool EXCEPT !.tasks[t].pc = "init"]
       ELSE /\ pool.available = <<>> => pool.opened < MaxConns
            /\ pool' = AcquireBody(pool, t)
    /\ last' = PoolEvent("pool.acquire", t, pool')
    /\ UNCHANGED PoolFrame

\* initialize(): one turn of the loop; after the last turn _initialized is
\* set and acquire goes on
pool_initialize(t) ==
    /\ pool.tasks[t].pc = "init"
    /\ pool.opened < MaxConns
    /\ LET conn == pool.opened + 1
           made == pool.tasks[t].made + 1
           grown == [pool EXCEPT !.opened = conn,
                                 !.connections = Append(@, conn),
                                 !.available = Append(@, conn),
                                 !.tasks[t].made = made]
       IN
       /\ made = PoolSize /\ grown.available = <<>> => conn < MaxConns
       /\ pool' = IF made < PoolSize THEN grown
                  ELSE AcquireBody([grown EXCEPT !.initialized = TRUE], t)
    /\ last' = PoolEvent("pool.acquire", t, pool')
    /\ UNCHANGED PoolFrame

\* async with pool.acquire(): exit
pool_release(t) ==
    /\ pool.tasks[t].pc = "holding"
    /\ LET conn == pool.tasks[t].conn IN
       pool' = IF pool.tasks[t].temp
               THEN [pool EXCEPT !.closed = @ \cup {conn}, !.tasks[t] = IdleTask]
               ELSE [pool EXCEPT !.available = pooled_release(@, conn),
                                 !.tasks[t] = IdleTask]
    /\ last' = PoolEvent("pool.release", t, pool)
    /\ UNCHANGED PoolFrame

\* the end of close(): both lists cleared
Closed(p) ==
    [p EXCEPT !.connections = <<>>, !.available = <<>>,
              !.initialized = FALSE, !.closing = 0]

\* close(): entry
pool_close ==
    /\ pool.closing = 0
    /\ pool' = IF pool.connections = <<>> THEN Closed(pool)
               ELSE [pool EXCEPT !.closing = 1]
    /\ last' = Event("pool.close", 0, 0, "",
                     IF pool.connections = <<>> THEN "closed" ELSE "closing")
    /\ UNCHANGED PoolFrame

\* close(): one turn of the loop over _connections
pool_close_step ==
    /\ pool.closing >= 1
    /\ LET conn == pool.connections[pool.closing]
           shut == [pool EXCEPT !.closed = @ \cup {conn}, !.closing = @ + 1]
       IN
       /\ pool' = IF pool.closing < Len(pool.connections) THEN shut
                  ELSE Closed(shut)
       /\ last' = Event("pool.close", 0, conn, "",
                        IF pool.closing < Len(pool.connections) THEN "closing"
                        ELSE "closed")
    /\ UNCHANGED PoolFrame

-----------------------------------------------------------------------------
(* handlers/admin_handlers.py: settings *)

\* a check that passes every known user
is_known_user(u) == u \in Users

\* callback.from_user.id in config.admin_ids
is_admin(u) == u \in admin_ids

\* SettingsService.get_default_endpoint
get_default_endpoint == default_endpoint

\* SettingsService.get_default_dns
get_default_dns == default_dns

\* settings_menu, settings_show, settings_endpoint, clear_default_endpoint:
\* admin-only screens that store nothing
SettingsScreen(op, u) ==
    /\ IF ~is_admin(u)
       THEN last' = Event(op, u, 0, "", "denied")
       ELSE last' = Event(op, u, 0, "", "shown")
    /\ UNCHANGED <<dbVars, livePeers, fsmVars, cfgVars>>

show_settings_menu(u) == SettingsScreen("settings_menu", u)
show_settings_info(u) == SettingsScreen("settings_show", u)
show_endpoint_settings(u) == SettingsScreen("settings_endpoint", u)
clear_endpoint_confirm(u) == SettingsScreen("clear_default_endpoint", u)

\* settings_dns: admin-only, opens the DNS prompt
start_dns_setup(u) ==
    /\ IF ~is_admin(u)
       THEN /\ UNCHANGED fsmVars
            /\ last' = Event("settings_dns", u, 0, "", "denied")
       ELSE /\ fsmState' = [fsmState EXCEPT ![u] = "SettingsStates:waiting_dns"]
            /\ UNCHANGED fsmData
            /\ last' = Event("settings_dns", u, 0, "", "prompt")
    /\ UNCHANGED <<dbVars, livePeers, cfgVars>>

\* text in SettingsStates.waiting_dns
process_dns_setup(u, text) ==
    /\ fsmState[u] = "SettingsStates:waiting_dns"
    /\ LET dns_servers == Strip(text) IN
       IF ~is_admin(u)
       THEN /\ UNCHANGED <<fsmVars, default_dns>>
            /\ last' = EventWith("text:settings_dns", u, 0, "", "ignored",
                                 dns_servers)
       ELSE IF ~validate_dns_servers(dns_servers)
       THEN /\ UNCHANGED <<fsmVars, default_dns>>
            /\ last' = EventWith("text:settings_dns", u, 0, "", "invalid",
                                 dns_servers)
       ELSE /\ default_dns' = dns_servers
            /\ Clear(u)
            /\ last' = EventWith("text:settings_dns", u, 0, "", "ok",
                                 dns_servers)
    /\ UNCHANGED <<dbVars, livePeers, default_endpoint, archives, ipv6_enabled, pool, running>>

\* set_default_endpoint: admin-only, opens the endpoint prompt
start_endpoint_setup(u) ==
    /\ IF ~is_admin(u)
       THEN /\ UNCHANGED fsmVars
            /\ last' = Event("set_default_endpoint", u, 0, "", "denied")
       ELSE /\ fsmState' = [fsmState EXCEPT ![u] = "SettingsStates:waiting_endpoint"]
            /\ UNCHANGED fsmData
            /\ last' = Event("set_default_endpoint", u, 0, "", "prompt")
    /\ UNCHANGED <<dbVars, livePeers, cfgVars>>

\* text in SettingsStates.waiting_endpoint
process_endpoint_setup(u, text) ==
    /\ fsmState[u] = "SettingsStates:waiting_endpoint"
    /\ LET endpoint == Strip(text) IN
       IF ~is_admin(u)
       THEN /\ UNCHANGED <<fsmVars, default_endpoint>>
            /\ last' = Event("text:settings_endpoint", u, 0, "", "ignored")
       ELSE IF ~validate_endpoint(endpoint)
       THEN /\ UNCHANGED <<fsmVars, default_endpoint>>
            /\ last' = Event("text:settings_endpoint", u, 0, "", "invalid")
       ELSE /\ default_endpoint' = endpoint
            /\ Clear(u)
            /\ last' = Event("text:settings_endpoint", u, 0, "", "ok")
    /\ UNCHANGED <<dbVars, livePeers, default_dns, archives, ipv6_enabled, pool, running>>

\* confirm_clear_endpoint: set_default_endpoint("")
confirm_clear_endpoint(u) ==
    /\ IF ~is_admin(u)
       THEN /\ UNCHANGED default_endpoint
            /\ last' = Event("confirm_clear_endpoint", u, 0, "", "denied")
       ELSE /\ default_endpoint' = <<>>
            /\ last' = Event("confirm_clear_endpoint", u, 0, "", "ok")
    /\ UNCHANGED <<dbVars, livePeers, fsmVars, default_dns, archives, ipv6_enabled, pool, running>>

-----------------------------------------------------------------------------
(* handlers/admin_handlers.py: the add-client wizard *)

\* int(text.strip()): NULL for ValueError
ParseInt(text) == IF Strip(text) = <<>> THEN NULL ELSE Numeral(Strip(text), 0)

\* hours in one custom time unit
UnitHours(unit) ==
    CASE unit = "hours" -> 1
      [] unit = "days" -> 24
      [] unit = "weeks" -> 168
      [] unit = "months" -> 720
      [] unit = "years" -> 8760

\* a rejection that ends the conversation
rejected_input_resets(u) == Clear(u)

\* the return of a text step after it refused the input: the FSM storage is
\* not touched
rejected_input(u) == UNCHANGED fsmVars

\* add_client
start_add_client(u) ==
    /\ LET endpoint == get_default_endpoint IN
       IF ~is_admin(u) /\ endpoint = <<>>
       THEN /\ UNCHANGED fsmVars
            /\ last' = Event("add_client", u, 0, "", "refused")
       ELSE /\ fsmData' = IF endpoint # <<>>
                          THEN [fsmData EXCEPT ![u].endpoint = endpoint]
                          ELSE fsmData
            /\ fsmState' = [fsmState EXCEPT ![u] = "ClientStates:waiting_name"]
            /\ last' = Event("add_client", u, 0, "", "wizard")
    /\ UNCHANGED <<dbVars, livePeers, cfgVars>>

\* text in ClientStates.waiting_name
process_client_name(u, text) ==
    /\ fsmState[u] = "ClientStates:waiting_name"
    /\ LET name == Strip(text) IN
       IF ~NameLengthOk(name) \/ ~NameCharsOk(name)
       THEN /\ rejected_input(u)
            /\ last' = EventWith("text:name", u, 0, "", "invalid", text)
       ELSE IF get_client_by_name(clients, name) # {}
       THEN /\ rejected_input(u)
            /\ last' = EventWith("text:name", u, 0, "", "duplicate", text)
       ELSE /\ fsmData' = [fsmData EXCEPT ![u].name = name]
            /\ fsmState' =
                 IF ipv6_enabled
                 THEN [fsmState EXCEPT ![u] = "ClientStates:waiting_ipv6_choice"]
                 ELSE IF fsmData[u].endpoint # AbsentText
                 THEN fsmState
                 ELSE [fsmState EXCEPT ![u] = "ClientStates:waiting_endpoint"]
            /\ last' = EventWith("text:name", u, 0, "", "ok", text)
    /\ UNCHANGED <<dbVars, livePeers, cfgVars>>

\* ipv6yes / ipv6no in ClientStates.waiting_ipv6_choice
process_ipv6_choice(u, yes) ==
    /\ fsmState[u] = "ClientStates:waiting_ipv6_choice"
    /\ fsmData' = [fsmData EXCEPT ![u].has_ipv6 = IF yes THEN "yes" ELSE "no"]
    /\ fsmState' =
         IF GetText(fsmData[u].endpoint) \notin {NoneText, <<>>}
         THEN fsmState
         ELSE [fsmState EXCEPT ![u] = "ClientStates:waiting_endpoint"]
    /\ last' = Event("ipv6", u, 0, IF yes THEN "yes" ELSE "no", "ok")
    /\ UNCHANGED <<dbVars, livePeers, cfgVars>>

\* text in ClientStates.waiting_endpoint
process_client_endpoint(u, text) ==
    /\ fsmState[u] = "ClientStates:waiting_endpoint"
    /\ LET endpoint == Strip(text) IN
       IF endpoint = <<>>
       THEN /\ rejected_input(u)
            /\ last' = EventWith("text:endpoint", u, 0, "", "invalid", text)
       ELSE /\ fsmData' = [fsmData EXCEPT ![u].endpoint = endpoint]
            /\ UNCHANGED fsmState
            /\ last' = EventWith("text:endpoint", u, 0, "", "ok", text)
    /\ UNCHANGED <<dbVars, livePeers, cfgVars>>

\* time_limit:<code>
process_time_limit(u, code) ==
    /\ IF code = "custom"
       THEN /\ UNCHANGED fsmVars
            /\ last' = Event("time_limit", u, 0, code, "units")
       ELSE /\ fsmData' = [fsmData EXCEPT ![u].expires_at = ExpiryOf(code)]
            /\ UNCHANGED fsmState
            /\ last' = Event("time_limit", u, 0, code, "ok")
    /\ UNCHANGED <<dbVars, livePeers, cfgVars>>

\* custom_time_unit:<unit>
process_custom_time_unit(u, unit) ==
    /\ fsmData' = [fsmData EXCEPT ![u].custom_time_unit = unit]
    /\ fsmState' =
         [fsmState EXCEPT ![u] = "ClientStates:waiting_custom_time_value"]
    /\ last' = Event("custom_time_unit", u, 0, unit, "prompt")
    /\ UNCHANGED <<dbVars, livePeers, cfgVars>>

\* text in ClientStates.waiting_custom_time_value
process_custom_time_value(u, text) ==
    /\ fsmState[u] = "ClientStates:waiting_custom_time_value"
    /\ LET value == ParseInt(text)
           unit == fsmData[u].custom_time_unit
           time_unit == IF unit = "absent" THEN "days" ELSE unit
       IN
       IF value = NULL \/ value <= 0 \/ value > 1000
       THEN /\ rejected_input(u)
            /\ last' = EventWith("text:custom_time_value", u, 0, "", "invalid",
                                 text)
       ELSE /\ fsmData' = [fsmData EXCEPT
                             ![u].expires_at = value * UnitHours(time_unit)]
            /\ UNCHANGED fsmState
            /\ last' = EventWith("text:custom_time_value", u, 0, "", "ok", text)
    /\ UNCHANGED <<dbVars, livePeers, cfgVars>>

\* cancel_add_client
cancel_add_client(u) ==
    /\ Clear(u)
    /\ last' = Event("cancel_add_client", u, 0, "", "ok")
    /\ UNCHANGED <<dbVars, livePeers, cfgVars>>

\* cancel_addclient, the callback data of the cancel button of the IPv6
\* question and of the endpoint prompt that follows it: no handler is
\* registered for it, so the update is dropped
cancel_addclient(u) ==
    /\ last' = Event("cancel_addclient", u, 0, "", "unhandled")
    /\ UNCHANGED <<dbVars, livePeers, fsmVars, cfgVars>>

\* a Client built without owner_id
no_owner_id(u) == NULL

\* owner_id=callback.from_user.id
wizard_owner_id(u) == u

\* a failure branch that leaves the inserted row
KeptAfterApplyFailed(tbl, id, c) == add_client(tbl, id, c)

\* the table after add_peer_to_server failed: db.delete_client(client_id)
AfterApplyFailed(tbl, id, c) == delete_client(add_client(tbl, id, c), id)

\* traffic_limit:<choice>: the final step of the wizard
process_traffic_limit(u, choice, apply_ok) ==
    /\ LET data == fsmData[u]
           key == generate_keypair(KeysInUse)
           ip_address == get_next_available_ip(clients)
           has_ipv6 == data.has_ipv6 = "yes"   \* data.get("has_ipv6", False)
           want6 == has_ipv6 /\ ipv6_enabled
           ipv6_address == IF want6 THEN get_next_available_ipv6(clients) ELSE ""
           client ==
             [NewClient EXCEPT
                !.name = GetText(data.name), !.public_key = key,
                !.private_key = key, !.preshared_key = key,
                !.ip_address = ip_address, !.ipv6_address = ipv6_address,
                !.has_ipv6 = has_ipv6, !.endpoint = GetText(data.endpoint),
                !.expires_at = GetInt(data.expires_at),
                !.traffic_limit = StoredTrafficText(choice),
                !.is_active = TRUE, !.is_blocked = FALSE,
                !.owner_id = wizard_owner_id(u)]
       IN
       /\ key <= MaxKeys
       /\ IF want6 /\ ipv6_address = ""
          THEN \* editor_send_message is not defined: NameError, caught below
               /\ UNCHANGED <<dbVars, livePeers>>
               /\ last' = Event("traffic_limit", u, 0, choice, "error")
          ELSE IF ip_address = ""
          THEN /\ UNCHANGED <<dbVars, livePeers>>
               /\ last' = Event("traffic_limit", u, 0, choice, "no_ip")
          ELSE IF ~InsertAccepted(clients, client)
          THEN \* IntegrityError, caught below
               /\ UNCHANGED <<dbVars, livePeers>>
               /\ last' = Event("traffic_limit", u, 0, choice, "error")
          ELSE /\ nextId <= MaxId
               /\ nextId' = nextId + 1
               /\ UNCHANGED ipConns
               /\ livePeers' = add_peer_to_server(livePeers, key, apply_ok)
               /\ IF apply_ok
                  THEN /\ clients' = add_client(clients, nextId, client)
                       /\ createdBy' = [i \in DOMAIN createdBy \cup {nextId} |->
                                          IF i = nextId THEN u ELSE createdBy[i]]
                       /\ last' = Event("traffic_limit", u, nextId, choice, "created")
                  ELSE /\ clients' = AfterApplyFailed(clients, nextId, client)
                       /\ UNCHANGED createdBy
                       /\ last' = Event("traffic_limit", u, nextId, choice,
                                        "apply_failed")
    /\ Clear(u)
    /\ UNCHANGED cfgVars

-----------------------------------------------------------------------------
(* handlers/admin_handlers.py: views of one client *)

\* transfer strings of the interface statistics
T_tr_zero ==
    <<"0", " ", "B", ",", " ", "0", " ", "B">>
T_tr_kib ==
    <<"1", " ", "K", "i", "B", ",", " ", "0", " ", "B">>
T_tr_mixed ==
    <<"1", ".", "5", " ", "K", "i", "B", " ", "r", "e", "c", "e", "i", "v", "e", "d", ",", " ", "2", " ", "k", "b", " ", "s", "e", "n", "t">>
T_tr_gib ==
    <<"2", " ", "G", "i", "B", " ", "r", "e", "c", "e", "i", "v", "e", "d", ",", " ", "1", " ", "G", "B", " ", "s", "e", "n", "t">>
T_tr_tib ==
    <<"1", " ", "T", "i", "B", " ", "r", "e", "c", "e", "i", "v", "e", "d", ",", " ", "1", " ", "T", "B", " ", "s", "e", "n", "t">>
T_tr_mib ==
    <<"5", " ", "M", "i", "B", " ", "r", "e", "c", "e", "i", "v", "e", "d", ",", " ", "2", ".", "5", " ", "M", "B", " ", "s", "e", "n", "t">>
T_tr_one ==
    <<"1", " ", "K", "i", "B", " ", "r", "e", "c", "e", "i", "v", "e", "d">>
T_tr_bad ==
    <<"x", " ", "B", ",", " ", "1", " ", "B">>
T_received == <<"r", "e", "c", "e", "i", "v", "e", "d">>
T_sent == <<"s", "e", "n", "t">>

\* str.upper() of the letters of the units
UpperChar(c) ==
    CASE c = "b" -> "B" [] c = "k" -> "K" [] c = "i" -> "I" [] c = "m" -> "M"
      [] c = "g" -> "G" [] c = "t" -> "T" [] OTHER -> c
Upper(t) == [k \in 1..Len(t) |-> UpperChar(t[k])]

\* str.split(sep): the parts between the occurrences of sep
RECURSIVE Split(_, _)
Split(t, sep) ==
    IF ~Contains(sep, t) THEN <<t>>
    ELSE LET k == CHOOSE i \in 0..(Len(t) - Len(sep)) :
                    /\ SubSeq(t, i + 1, i + Len(sep)) = sep
                    /\ \A j \in 0..(i - 1) :
                          SubSeq(t, j + 1, j + Len(sep)) # sep
         IN <<SubSeq(t, 1, k)>>
                \o Split(SubSeq(t, k + Len(sep) + 1, Len(t)), sep)

\* str.replace(sub, '')
RECURSIVE RemoveText(_, _)
RemoveText(t, sub) ==
    IF Len(t) < Len(sub) THEN t
    ELSE IF SubSeq(t, 1, Len(sub)) = sub
    THEN RemoveText(SubSeq(t, Len(sub) + 1, Len(t)), sub)
    ELSE <<Head(t)>> \o RemoveText(Tail(t), sub)

\* str.split(): the words between the runs of blanks
RECURSIVE Words(_)
Words(t) ==
    LET s == LStrip(t)
    IN IF s = <<>> THEN <<>>
       ELSE LET n == IF \E i \in 1..Len(s) : s[i] = " "
                     THEN (CHOOSE i \in 1..Len(s) :
                              s[i] = " " /\ \A j \in 1..(i - 1) : s[j] # " ")
                          - 1
                     ELSE Len(s)
            IN <<SubSeq(s, 1, n)>> \o Words(SubSeq(s, n + 1, Len(s)))

\* float(): digits with at most one point among them, else ValueError;
\* the value is num / 10^places
IsFloat(t) ==
    /\ Remove(t, ".") # <<>>
    /\ \A i \in 1..Len(t) : t[i] \in Digits \cup {"."}
    /\ Len(Split(t, <<".">>)) <= 2
FloatOf(t) ==
    [num |-> Numeral(Remove(t, "."), 0),
     places |-> IF Contains(<<".">>, t) THEN Len(Split(t, <<".">>)[2]) ELSE 0]

\* n * b for 0 <= n < 2^15, in 32-bit steps (2^15 = 32768, 2^30 = 1073741824)
MulBytes(n, b) ==
    LET hi == n * (b.rem \div 32768)
        lo == n * (b.rem % 32768)
        low == (hi % 32768) * 32768 + lo
    IN IntBytes(n * b.gib + hi \div 32768 + low \div 1073741824,
                low % 1073741824)

\* b // 10 (2^30 = 10 * 107374182 + 4)
Div10(b) ==
    LET m == b.gib % 10
    IN IntBytes(b.gib \div 10, m * 107374182 + (4 * m + b.rem) \div 10)

\* b // 10^k
RECURSIVE DivPow10(_, _)
DivPow10(b, k) == IF k = 0 THEN b ELSE DivPow10(Div10(b), k - 1)

\* a + b
AddBytes(a, b) ==
    LET s == a.rem + b.rem
    IN IntBytes(a.gib + b.gib + s \div 1073741824, s % 1073741824)

\* a table that counts every prefix in thousands
decimal_multipliers(unit) ==
    CASE unit = <<"K", "B">> \/ unit = <<"K", "I", "B">> -> IntBytes(0, 1000)
      [] unit = <<"M", "B">> \/ unit = <<"M", "I", "B">> -> IntBytes(0, 1000000)
      [] unit = <<"G", "B">> \/ unit = <<"G", "I", "B">> ->
            IntBytes(0, 1000000000)
      [] unit = <<"T", "B">> \/ unit = <<"T", "I", "B">> ->
            IntBytes(931, 346361856)
      [] OTHER -> IntBytes(0, 1)

\* multipliers.get(unit, 1); 1000^4 = 931 * 1024^3 + 346361856
multipliers(unit) ==
    CASE unit = <<"B">> -> IntBytes(0, 1)
      [] unit = <<"K", "I", "B">> -> IntBytes(0, 1024)
      [] unit = <<"M", "I", "B">> -> IntBytes(0, 1048576)
      [] unit = <<"G", "I", "B">> -> IntBytes(1, 0)
      [] unit = <<"T", "I", "B">> -> IntBytes(1024, 0)
      [] unit = <<"K", "B">> -> IntBytes(0, 1000)
      [] unit = <<"M", "B">> -> IntBytes(0, 1000000)
      [] unit = <<"G", "B">> -> IntBytes(0, 1000000000)
      [] unit = <<"T", "B">> -> IntBytes(931, 346361856)
      [] OTHER -> IntBytes(0, 1)

\* the outcome of a parse: a byte count, or the exception float() raised
Parsed(b) == [ok |-> TRUE, bytes |-> b]
ParseError == [ok |-> FALSE, bytes |-> IntBytes(0, 0)]

\* parse_traffic_size of update_client_traffic_usage
parse_traffic_size(size_str) ==
    LET s0 == Strip(size_str)
        s1 == IF Contains(T_received, s0)
              THEN RemoveText(s0, <<" ">> \o T_received) ELSE s0
        s2 == IF Contains(T_sent, s1)
              THEN RemoveText(s1, <<" ">> \o T_sent) ELSE s1
        parts == Words(s2)
    IN IF Len(parts) # 2 THEN Parsed(IntBytes(0, 0))
       ELSE IF ~IsFloat(parts[1]) THEN ParseError
       ELSE LET value == FloatOf(parts[1])
                unit == Upper(parts[2])
            IN Parsed(DivPow10(MulBytes(value.num, multipliers(unit)),
                               value.places))

\* rx_str, tx_str = transfer.split(', '); rx_bytes + tx_bytes
total_bytes(transfer) ==
    LET halves == Split(transfer, <<",", " ">>)
    IN IF Len(halves) # 2 THEN ParseError
       ELSE LET rx == parse_traffic_size(halves[1])
                tx == parse_traffic_size(halves[2])
            IN IF rx.ok /\ tx.ok THEN Parsed(AddBytes(rx.bytes, tx.bytes))
               ELSE ParseError

\* the transfer strings the statistics carry; AbsentText when the statistics
\* of the peer have no 'transfer'
TrafficSamples == {T_tr_zero, T_tr_kib}

\* user_id not in config.admin_ids and client.owner_id != user_id
access_refused(u, client) == ~is_admin(u) /\ client.owner_id # u

\* update_client_traffic_usage: no statistics for a key that is not a live
\* peer; otherwise the parsed total is written when it differs from
\* traffic_used, and an exception of the parse is logged
update_client_traffic_usage(tbl, peers, client, transfer) ==
    LET total == total_bytes(IF transfer = AbsentText THEN T_tr_zero
                             ELSE transfer)
    IN IF client.public_key \notin peers THEN tbl
       ELSE IF ~total.ok THEN tbl
       ELSE IF total.bytes # client.traffic_used
       THEN update_client(tbl, [client EXCEPT !.traffic_used = total.bytes])
       ELSE tbl


\* a handler that answers "not found", refuses strangers, and else shows
GatedView(op, u, id) ==
    /\ last' = IF ~HasClient(clients, id)
               THEN Event(op, u, id, "", "not_found")
               ELSE IF access_refused(u, get_client(clients, id))
               THEN Event(op, u, id, "", "denied")
               ELSE Event(op, u, id, "", "shown")
    /\ UNCHANGED <<dbVars, livePeers, fsmVars, cfgVars>>

\* client_details:<id>
show_client_details(u, id, transfer) ==
    /\ IF ~HasClient(clients, id)
       THEN /\ UNCHANGED clients
            /\ last' = Event("client_details", u, id, "", "not_found")
       ELSE IF access_refused(u, get_client(clients, id))
       THEN /\ UNCHANGED clients
            /\ last' = Event("client_details", u, id, "", "denied")
       ELSE /\ clients' = update_client_traffic_usage(
                              clients, livePeers, get_client(clients, id), transfer)
            /\ last' = EventWith("client_details", u, id, "", "shown",
                                    transfer)
    /\ UNCHANGED <<nextId, ipConns, createdBy, livePeers, fsmVars, cfgVars>>

\* back_from_config:<id>
back_from_config(u, id, transfer) ==
    /\ IF ~HasClient(clients, id)
       THEN /\ UNCHANGED clients
            /\ last' = Event("back_from_config", u, id, "", "not_found")
       ELSE /\ clients' = update_client_traffic_usage(
                              clients, livePeers, get_client(clients, id), transfer)
            /\ last' = EventWith("back_from_config", u, id, "", "shown",
                                    transfer)
    /\ UNCHANGED <<nextId, ipConns, createdBy, livePeers, fsmVars, cfgVars>>

\* client_config:<id>
send_client_config(u, id) == GatedView("client_config", u, id)

\* client_qr:<id>
send_client_qr(u, id) == GatedView("client_qr", u, id)

\* client_ip_info:<id>
show_client_ip_info(u, id) == GatedView("client_ip_info", u, id)

\* client_stats:<id>
show_client_stats(u, id) == GatedView("client_stats", u, id)

-----------------------------------------------------------------------------
(* handlers/admin_handlers.py: block, delete *)

\* a handler that stores the new status whatever the interface answered
store_always(tbl, client, success) == update_client(tbl, client)

\* if success: await db.update_client(client)
store_if_applied(tbl, client, success) ==
    IF success THEN update_client(tbl, client) ELSE tbl

\* toggle_block:<id>
toggle_client_block(u, id, ok) ==
    /\ IF ~is_admin(u)
       THEN /\ UNCHANGED <<clients, livePeers>>
            /\ last' = Event("toggle_block", u, id, "", "denied")
       ELSE IF ~HasClient(clients, id)
       THEN /\ UNCHANGED <<clients, livePeers>>
            /\ last' = Event("toggle_block", u, id, "", "not_found")
       ELSE LET c0 == get_client(clients, id)
                client == [c0 EXCEPT !.is_blocked = ~c0.is_blocked]
            IN
            /\ livePeers' =
                 IF client.is_blocked
                 THEN remove_peer_from_server(livePeers, client.public_key, ok)
                 ELSE add_peer_to_server(livePeers, client.public_key, ok)
            /\ clients' = store_if_applied(clients, client, ok)
            /\ last' = Event("toggle_block", u, id,
                             IF client.is_blocked THEN "block" ELSE "unblock",
                             IF ok THEN "ok" ELSE "failed")
    /\ UNCHANGED <<nextId, ipConns, createdBy, fsmVars, cfgVars>>

\* delete_client:<id>: asks for confirmation
confirm_delete_client(u, id) ==
    /\ last' = IF ~is_admin(u)
               THEN Event("delete_client", u, id, "", "denied")
               ELSE IF ~HasClient(clients, id)
               THEN Event("delete_client", u, id, "", "not_found")
               ELSE Event("delete_client", u, id, "", "confirm")
    /\ UNCHANGED <<dbVars, livePeers, fsmVars, cfgVars>>

\* confirm:delete_client:<id>
delete_client_confirmed(u, id, ok) ==
    /\ IF ~is_admin(u)
       THEN /\ UNCHANGED <<clients, ipConns, createdBy, livePeers>>
            /\ last' = Event("confirm:delete_client", u, id, "", "denied")
       ELSE IF ~HasClient(clients, id)
       THEN /\ UNCHANGED <<clients, ipConns, createdBy, livePeers>>
            /\ last' = Event("confirm:delete_client", u, id, "", "not_found")
       ELSE /\ livePeers' = remove_peer_from_server(
                               livePeers, get_client(clients, id).public_key, ok)
            /\ clients' = delete_client(clients, id)
            /\ ipConns' = cascade_delete(ipConns, {id})
            /\ createdBy' = Forget(createdBy, clients')
            /\ last' = Event("confirm:delete_client", u, id, "", "deleted")
    /\ UNCHANGED <<nextId, fsmVars, cfgVars>>

\* an observed connection of a stored client: add_client_ip_connection
RecordConnection(id, ip) ==
    /\ id \in Ids
    /\ \A r \in ipConns :
         r.client_id = id /\ r.ip_address = ip => r.connection_count < MaxCount
    /\ ipConns' = add_client_ip_connection(ipConns, id, ip, "today")
    /\ last' = Event("connection", 0, id, ip, "ok")
    /\ UNCHANGED <<clients, nextId, createdBy, livePeers, fsmVars, cfgVars>>

-----------------------------------------------------------------------------
(* handlers/admin_handlers.py: editing a client *)

TimeUnits == {"hours", "days"}

EditFrame == <<nextId, ipConns, createdBy, livePeers, cfgVars>>

\* opens a text step for client <id>
OpenEdit(op, u, id, st) ==
    /\ IF ~HasClient(clients, id)
       THEN /\ UNCHANGED fsmVars
            /\ last' = Event(op, u, id, "", "not_found")
       ELSE /\ fsmData' = [fsmData EXCEPT ![u].edit_client_id = id]
            /\ fsmState' = IF st = "" THEN fsmState
                           ELSE [fsmState EXCEPT ![u] = st]
            /\ last' = Event(op, u, id, "", "prompt")
    /\ UNCHANGED <<clients, EditFrame>>

\* edit_name:<id>
edit_client_name(u, id) ==
    OpenEdit("edit_name", u, id, "EditClientStates:waiting_new_name")

\* text in EditClientStates.waiting_new_name
process_new_client_name(u, text) ==
    /\ fsmState[u] = "EditClientStates:waiting_new_name"
    /\ LET new_name == Strip(text)
           client_id == GetInt(fsmData[u].edit_client_id)
       IN
       IF ~NameLengthOk(new_name) \/ ~NameCharsOk(new_name)
       THEN /\ UNCHANGED <<clients, fsmVars>>
            /\ last' = EventWith("text:new_name", u, client_id, "", "invalid",
                                 text)
       ELSE IF get_client_by_name(clients, new_name) \ {client_id} # {}
       THEN /\ UNCHANGED <<clients, fsmVars>>
            /\ last' = EventWith("text:new_name", u, client_id, "", "duplicate",
                                 text)
       ELSE IF ~HasClient(clients, client_id)
       THEN \* client is None: AttributeError leaves the handler
            /\ UNCHANGED <<clients, fsmVars>>
            /\ last' = EventWith("text:new_name", u, client_id, "", "crash", text)
       ELSE /\ clients' = update_client(
                 clients, [get_client(clients, client_id) EXCEPT !.name = new_name])
            /\ Clear(u)
            /\ last' = EventWith("text:new_name", u, client_id, "", "ok", text)
    /\ UNCHANGED EditFrame

\* edit_endpoint:<id>
edit_client_endpoint(u, id) ==
    OpenEdit("edit_endpoint", u, id, "EditClientStates:waiting_new_endpoint")

\* text in EditClientStates.waiting_new_endpoint
process_new_client_endpoint(u, text) ==
    /\ fsmState[u] = "EditClientStates:waiting_new_endpoint"
    /\ LET new_endpoint == Strip(text)
           client_id == GetInt(fsmData[u].edit_client_id)
       IN
       IF new_endpoint = <<>>
       THEN /\ UNCHANGED <<clients, fsmVars>>
            /\ last' = Event("text:new_endpoint", u, client_id, "", "invalid")
       ELSE IF ~HasClient(clients, client_id)
       THEN /\ UNCHANGED <<clients, fsmVars>>
            /\ last' = Event("text:new_endpoint", u, client_id, "", "crash")
       ELSE /\ clients' = update_client(
                 clients,
                 [get_client(clients, client_id) EXCEPT !.endpoint = new_endpoint])
            /\ Clear(u)
            /\ last' = Event("text:new_endpoint", u, client_id, "", "ok")
    /\ UNCHANGED EditFrame

\* edit_expiry:<id>
edit_client_expiry(u, id) == OpenEdit("edit_expiry", u, id, "")

\* edit_time_limit:<id>:<code>
process_edit_time_limit(u, id, code) ==
    /\ IF ~HasClient(clients, id)
       THEN /\ UNCHANGED <<clients, fsmVars>>
            /\ last' = Event("edit_time_limit", u, id, code, "not_found")
       ELSE IF code = "custom"
       THEN /\ fsmData' = [fsmData EXCEPT ![u].edit_client_id = id]
            /\ UNCHANGED <<clients, fsmState>>
            /\ last' = Event("edit_time_limit", u, id, code, "units")
       ELSE /\ clients' = update_client(
                 clients,
                 [get_client(clients, id) EXCEPT !.expires_at = ExpiryOf(code)])
            /\ UNCHANGED fsmVars
            /\ last' = Event("edit_time_limit", u, id, code, "ok")
    /\ UNCHANGED EditFrame

\* edit_custom_time_unit:<id>:<unit>
process_edit_custom_time_unit(u, id, unit) ==
    /\ fsmData' = [fsmData EXCEPT ![u].edit_client_id = id,
                                  ![u].custom_time_unit = unit]
    /\ fsmState' = [fsmState EXCEPT ![u] = "EditClientStates:waiting_edit_time_value"]
    /\ last' = Event("edit_custom_time_unit", u, id, unit, "prompt")
    /\ UNCHANGED <<clients, EditFrame>>

\* text in EditClientStates.waiting_edit_time_value
process_edit_custom_time_value(u, text) ==
    /\ fsmState[u] = "EditClientStates:waiting_edit_time_value"
    /\ LET value == ParseInt(text)
           client_id == GetInt(fsmData[u].edit_client_id)
           unit == fsmData[u].custom_time_unit
           time_unit == IF unit = "absent" THEN "days" ELSE unit
       IN
       IF value = NULL \/ value <= 0 \/ value > 1000
       THEN /\ UNCHANGED <<clients, fsmVars>>
            /\ last' = Event("text:edit_time_value", u, client_id, "", "invalid")
       ELSE IF ~HasClient(clients, client_id)
       THEN /\ UNCHANGED clients
            /\ Clear(u)
            /\ last' = Event("text:edit_time_value", u, client_id, "", "not_found")
       ELSE /\ clients' = update_client(
                 clients,
                 [get_client(clients, client_id) EXCEPT
                    !.expires_at = value * UnitHours(time_unit)])
            /\ Clear(u)
            /\ last' = Event("text:edit_time_value", u, client_id, "", "ok")
    /\ UNCHANGED EditFrame

\* edit_traffic_limit:<id>
edit_client_traffic(u, id) == OpenEdit("edit_traffic_limit", u, id, "")

\* edit_traffic_value:<id>:<choice>
process_edit_traffic_limit(u, id, choice) ==
    /\ IF ~HasClient(clients, id)
       THEN /\ UNCHANGED <<clients, fsmVars>>
            /\ last' = Event("edit_traffic_value", u, id, choice, "not_found")
       ELSE /\ clients' = update_client(
                 clients,
                 [get_client(clients, id) EXCEPT
                    !.traffic_limit = traffic_limit_bytes(choice)])
            /\ Clear(u)
            /\ last' = Event("edit_traffic_value", u, id, choice, "ok")
    /\ UNCHANGED EditFrame

\* regenerate_keys:<id>: asks for confirmation
confirm_regenerate_keys(u, id) ==
    /\ last' = IF ~HasClient(clients, id)
               THEN Event("regenerate_keys", u, id, "", "not_found")
               ELSE Event("regenerate_keys", u, id, "", "confirm")
    /\ UNCHANGED <<dbVars, livePeers, fsmVars, cfgVars>>

\* confirm_regenerate:<id>
regenerate_client_keys(u, id, remove_ok, add_ok) ==
    /\ IF ~HasClient(clients, id)
       THEN /\ UNCHANGED <<clients, livePeers>>
            /\ last' = Event("confirm_regenerate", u, id, "", "not_found")
       ELSE /\ LET old == get_client(clients, id)
                   key == generate_keypair(KeysInUse)
                   client == [old EXCEPT !.private_key = key,
                                         !.public_key = key]
                   removed == remove_peer_from_server(
                                  livePeers, old.public_key, remove_ok)
               IN
               /\ key <= MaxKeys
               /\ clients' = update_client(clients, client)
               /\ livePeers' =
                    IF ~client.is_blocked
                    THEN add_peer_to_server(removed, client.public_key, add_ok)
                    ELSE removed
               /\ last' = Event("confirm_regenerate", u, id, "", "ok")
    /\ UNCHANGED <<nextId, ipConns, createdBy, fsmVars, cfgVars>>

-----------------------------------------------------------------------------
(* services/backup_service.py *)

\* ORDER BY name COLLATE NOCASE: characters in collation order
CharOrder == <<" ", "!", "-", ".", "0", "1", "2", "5", "_",
               "a", "b", "c", "d", "h", "x", "U+0436">>
CharCode(c) == CHOOSE i \in 1..Len(CharOrder) : CharOrder[i] = c

RECURSIVE TextLess(_, _)
TextLess(a, b) ==
    IF b = <<>> THEN FALSE
    ELSE IF a = <<>> THEN TRUE
    ELSE IF Head(a) # Head(b) THEN CharCode(Head(a)) < CharCode(Head(b))
    ELSE TextLess(Tail(a), Tail(b))

\* Database.get_all_clients(): the clients in name order
RECURSIVE InNameOrder(_, _)
InNameOrder(tbl, ids) ==
    IF ids = {} THEN <<>>
    ELSE LET first == CHOOSE i \in ids :
                 \A j \in ids \ {i} : TextLess(tbl[i].name, tbl[j].name)
         IN <<get_client(tbl, first)>> \o InNameOrder(tbl, ids \ {first})

get_all_clients(tbl) == InNameOrder(tbl, DOMAIN tbl)

\* a listing that ignores its owner_id argument
get_all_clients_unscoped(tbl, owner_id) == get_all_clients(tbl)

\* Database.get_all_clients(owner_id): WHERE owner_id = ? when owner_id is
\* not None
get_all_clients_scoped(tbl, owner_id) ==
    IF owner_id # NULL
    THEN InNameOrder(tbl, {i \in DOMAIN tbl : tbl[i].owner_id = owner_id})
    ELSE get_all_clients(tbl)

\* LIMIT ? OFFSET ? of a result
Window(rows, offset, limit) ==
    SubSeq(rows, offset + 1,
           IF offset + limit < Len(rows) THEN offset + limit ELSE Len(rows))

\* Database.get_clients_paginated(offset, limit, owner_id)
get_clients_paginated(tbl, offset, limit, owner_id) ==
    Window(get_all_clients_scoped(tbl, owner_id), offset, limit)

\* the ids of a list of Clients, in its order
IdsOf(rows) == [k \in 1..Len(rows) |-> rows[k].id]

\* the client_data entry create_backup builds for one client
client_data(c) ==
    [name |-> c.name, public_key |-> c.public_key, private_key |-> c.private_key,
     ip_address |-> c.ip_address, endpoint |-> c.endpoint,
     expires_at |-> c.expires_at, traffic_limit |-> c.traffic_limit,
     traffic_used |-> c.traffic_used, is_active |-> c.is_active,
     is_blocked |-> c.is_blocked, owner_id |-> c.owner_id]

\* the 'clients' list of the manifest clients.json
manifest_of(tbl) ==
    LET all == get_all_clients(tbl) IN [k \in 1..Len(all) |-> client_data(all[k])]

\* a Client built from a manifest entry without its keys
restored_without_keys(d) ==
    [NewClient EXCEPT !.name = d.name, !.ip_address = d.ip_address]

\* the Client restore_backup builds from one entry of the manifest
restored_client(d) ==
    [NewClient EXCEPT
       !.name = d.name, !.public_key = d.public_key,
       !.private_key = d.private_key, !.ip_address = d.ip_address,
       !.endpoint = d.endpoint, !.expires_at = d.expires_at,
       !.traffic_limit = d.traffic_limit, !.traffic_used = d.traffic_used,
       !.is_active = d.is_active, !.is_blocked = d.is_blocked,
       !.owner_id = d.owner_id]

\* the reinsertion loop of restore_backup from entry k on; an INSERT that is
\* refused raises and ends the loop
RECURSIVE Reinsert(_, _, _, _)
Reinsert(tbl, manifest, k, id) ==
    IF k > Len(manifest) THEN [tbl |-> tbl, nextId |-> id, ok |-> TRUE]
    ELSE IF ~InsertAccepted(tbl, restored_client(manifest[k]))
    THEN [tbl |-> tbl, nextId |-> id, ok |-> FALSE]
    ELSE Reinsert(add_client(tbl, id, restored_client(manifest[k])),
                  manifest, k + 1, id + 1)

\* BackupService.restore_backup on an archive that has its manifest: every
\* stored client is deleted, then the manifest's clients are inserted
restore_backup(manifest, id) == Reinsert(<<>>, manifest, 1, id)

\* an archive that holds the database file alone
only_database == {"database.db"}

\* the members of the archive create_backup writes
archive_members == {"clients.json", "database.db"}

\* the name of a new archive: awg_backup_<timestamp>.zip, a name the
\* directory does not hold
new_backup_filename ==
    CHOOSE f \in 1..MaxArchives :
        f \notin DOMAIN archives /\ \A g \in 1..(f - 1) : g \in DOMAIN archives

\* what a backup handler answered about which file, and the files it
\* showed
BackupAnswer(file, shown) == [file |-> file, shown |-> shown]

\* BackupService.list_backups: the archives of the directory
list_backups_of(dir) == DOMAIN dir

\* backup_menu
show_backup_menu(u) ==
    /\ IF ~is_admin(u)
       THEN last' = EventWith("backup_menu", u, 0, "", "denied",
                              BackupAnswer(0, {}))
       ELSE last' = EventWith("backup_menu", u, 0, "", "ok", BackupAnswer(0, {}))
    /\ UNCHANGED <<dbVars, livePeers, fsmVars, cfgVars>>

\* create_backup
create_backup(u) ==
    /\ IF ~is_admin(u)
       THEN /\ UNCHANGED archives
            /\ last' = EventWith("create_backup", u, 0, "", "denied",
                                 BackupAnswer(0, {}))
       ELSE /\ Cardinality(DOMAIN archives) < MaxArchives
            /\ archives' =
                 [f \in DOMAIN archives \cup {new_backup_filename} |->
                    IF f = new_backup_filename
                    THEN [members |-> archive_members,
                          clients |-> manifest_of(clients)]
                    ELSE archives[f]]
            /\ last' = EventWith("create_backup", u, 0, "", "ok",
                                 BackupAnswer(new_backup_filename,
                                              {new_backup_filename}))
    /\ UNCHANGED <<dbVars, livePeers, fsmVars, default_endpoint, default_dns,
                   ipv6_enabled, pool, running>>

\* list_backups
list_backups(u) ==
    /\ last' = EventWith("list_backups", u, 0, "",
                         IF list_backups_of(archives) = {} THEN "none"
                         ELSE "listed",
                         BackupAnswer(0, list_backups_of(archives)))
    /\ UNCHANGED <<dbVars, livePeers, fsmVars, cfgVars>>

\* backup_details:<filename>
show_backup_details(u, file) ==
    /\ IF file \notin list_backups_of(archives)
       THEN last' = EventWith("backup_details", u, 0, "", "not_found",
                              BackupAnswer(file, {}))
       ELSE last' = EventWith("backup_details", u, 0, "", "shown",
                              BackupAnswer(file, {file}))
    /\ UNCHANGED <<dbVars, livePeers, fsmVars, cfgVars>>

\* restore_backup:<filename>: the question before a restore
restore_backup_confirm(u, file) ==
    /\ IF ~is_admin(u)
       THEN last' = EventWith("restore_backup", u, 0, "", "denied",
                              BackupAnswer(file, {}))
       ELSE last' = EventWith("restore_backup", u, 0, "", "asked",
                              BackupAnswer(file, {}))
    /\ UNCHANGED <<dbVars, livePeers, fsmVars, cfgVars>>

\* an archive restore_backup takes whatever it holds
any_archive(a) == TRUE

\* 'clients.json' in zipf.namelist()
has_manifest(a) == "clients.json" \in a.members

\* confirm_restore:<filename>
confirm_restore_backup(u, file) ==
    /\ IF ~is_admin(u)
       THEN /\ UNCHANGED dbVars
            /\ last' = EventWith("confirm_restore", u, 0, "", "denied",
                                 BackupAnswer(file, {}))
       ELSE IF file \notin DOMAIN archives
       THEN /\ UNCHANGED dbVars
            /\ last' = EventWith("confirm_restore", u, 0, "", "failed",
                                 BackupAnswer(file, {}))
       ELSE IF ~has_manifest(archives[file])
       THEN /\ UNCHANGED dbVars
            /\ last' = EventWith("confirm_restore", u, 0, "", "failed",
                                 BackupAnswer(file, {}))
       ELSE LET r == restore_backup(archives[file].clients, nextId) IN
            /\ r.nextId <= 2 * (MaxId + MaxRestored) + 1
            /\ clients' = r.tbl
            /\ nextId' = r.nextId
            /\ ipConns' = cascade_delete(ipConns, DOMAIN clients)
            /\ createdBy' = Forget(createdBy, clients')
            /\ last' = EventWith("confirm_restore", u, 0, "",
                                 IF r.ok THEN "ok" ELSE "failed",
                                 BackupAnswer(file, {file}))
    /\ UNCHANGED <<livePeers, fsmVars, cfgVars>>

\* delete_backup:<filename>: the question before a deletion
delete_backup_confirm(u, file) ==
    /\ last' = EventWith("delete_backup", u, 0, "", "asked",
                         BackupAnswer(file, {}))
    /\ UNCHANGED <<dbVars, livePeers, fsmVars, cfgVars>>

\* BackupService.delete_backup: unlink when the file exists
delete_backup(dir, file) == [f \in DOMAIN dir \ {file} |-> dir[f]]

\* confirm_delete_backup:<filename>
confirm_delete_backup(u, file) ==
    /\ archives' = delete_backup(archives, file)
    /\ last' = EventWith("confirm_delete_backup", u, 0, "",
                         IF file \in DOMAIN archives THEN "deleted" ELSE "failed",
                         BackupAnswer(file, {}))
    /\ UNCHANGED <<dbVars, livePeers, fsmVars, default_endpoint, default_dns,
                   ipv6_enabled, pool, running>>

-----------------------------------------------------------------------------
(* the events the bot receives *)

NameTexts == {T_ab, T_c_d, T_x, T_bang, T_sp_ab}
EndpointTexts == {T_host1, T_host2, T_blank}
DnsTexts == {T_dns1, T_dns2, T_dns_bad, T_x}
NumberTexts == {<<"2">>, <<"0">>, <<"x">>}
ClientIds == 1..(MaxId + MaxRestored)
PeerAddresses == {"198.51.100.7"}
ArchiveFiles == 1..(MaxArchives + 1)

Next ==
    \/ \E u \in Users : start_endpoint_setup(u)
    \/ \E u \in Users, t \in EndpointTexts : process_endpoint_setup(u, t)
    \/ \E u \in Users : confirm_clear_endpoint(u)
    \/ \E u \in Users : show_settings_menu(u)
    \/ \E u \in Users : show_settings_info(u)
    \/ \E u \in Users : show_endpoint_settings(u)
    \/ \E u \in Users : clear_endpoint_confirm(u)
    \/ \E u \in Users : start_dns_setup(u)
    \/ \E u \in Users, t \in DnsTexts : process_dns_setup(u, t)
    \/ \E u \in Users : start_add_client(u)
    \/ \E u \in Users, t \in NameTexts : process_client_name(u, t)
    \/ \E u \in Users, yes \in BOOLEAN : process_ipv6_choice(u, yes)
    \/ \E u \in Users, t \in EndpointTexts : process_client_endpoint(u, t)
    \/ \E u \in Users, code \in TimeCodes \cup {"custom"} : process_time_limit(u, code)
    \/ \E u \in Users : cancel_add_client(u)
    \/ \E u \in Users, choice \in TrafficChoices, ok \in BOOLEAN :
          process_traffic_limit(u, choice, ok)
    \/ \E u \in Users, id \in ClientIds, transfer \in TrafficSamples :
          show_client_details(u, id, transfer)
    \/ \E u \in Users, id \in ClientIds, transfer \in TrafficSamples :
          back_from_config(u, id, transfer)
    \/ \E u \in Users, id \in ClientIds : send_client_config(u, id)
    \/ \E u \in Users, id \in ClientIds : send_client_qr(u, id)
    \/ \E u \in Users, id \in ClientIds : show_client_ip_info(u, id)
    \/ \E u \in Users, id \in ClientIds : show_client_stats(u, id)
    \/ \E u \in Users, id \in ClientIds, ok \in BOOLEAN : toggle_client_block(u, id, ok)
    \/ \E u \in Users, id \in ClientIds : confirm_delete_client(u, id)
    \/ \E u \in Users, id \in ClientIds, ok \in BOOLEAN :
          delete_client_confirmed(u, id, ok)
    \/ \E id \in ClientIds, ip \in PeerAddresses : RecordConnection(id, ip)
    \/ \E u \in Users, id \in ClientIds : edit_client_name(u, id)
    \/ \E u \in Users, t \in NameTexts : process_new_client_name(u, t)
    \/ \E u \in Users, id \in ClientIds : edit_client_endpoint(u, id)
    \/ \E u \in Users, t \in EndpointTexts : process_new_client_endpoint(u, t)
    \/ \E u \in Users, id \in ClientIds : edit_client_expiry(u, id)
    \/ \E u \in Users, id \in ClientIds, code \in TimeCodes \cup {"custom"} :
          process_edit_time_limit(u, id, code)
    \/ \E u \in Users, id \in ClientIds, unit \in TimeUnits :
          process_edit_custom_time_unit(u, id, unit)
    \/ \E u \in Users, t \in NumberTexts : process_edit_custom_time_value(u, t)
    \/ \E u \in Users, id \in ClientIds : edit_client_traffic(u, id)
    \/ \E u \in Users, id \in ClientIds, choice \in TrafficChoices :
          process_edit_traffic_limit(u, id, choice)
    \/ \E u \in Users, id \in ClientIds : confirm_regenerate_keys(u, id)
    \/ \E u \in Users, id \in ClientIds, r \in BOOLEAN, a \in BOOLEAN :
          regenerate_client_keys(u, id, r, a)
    \/ \E u \in Users : create_backup(u)
    \/ \E u \in Users, file \in ArchiveFiles : confirm_restore_backup(u, file)
    \/ \E u \in Users : show_backup_menu(u)
    \/ \E u \in Users : list_backups(u)
    \/ \E u \in Users, file \in ArchiveFiles : show_backup_details(u, file)
    \/ \E u \in Users, file \in ArchiveFiles : restore_backup_confirm(u, file)
    \/ \E u \in Users, file \in ArchiveFiles : delete_backup_confirm(u, file)
    \/ \E u \in Users, file \in ArchiveFiles : confirm_delete_backup(u, file)
    \/ \E t \in PoolTasks : pool_acquire(t)
    \/ \E t \in PoolTasks : pool_initialize(t)
    \/ \E t \in PoolTasks : pool_release(t)
    \/ pool_close
    \/ pool_close_step

Spec == Init /\ [][Next]_vars

-----------------------------------------------------------------------------
(* database/database.py called directly *)

\* Clients a caller passes to add_client: ClientA has no field at its
\* default, ClientB shares nothing with it, ClientC has ClientA's name and
\* ClientD has ClientA's ip_address
ClientA ==
    [NewClient EXCEPT
       !.name = T_ab, !.public_key = 1, !.private_key = 1, !.preshared_key = 1,
       !.ip_address = "10.0.0.2", !.ipv6_address = "fd00::2", !.has_ipv6 = TRUE,
       !.endpoint = T_host1, !.expires_at = 24,
       !.traffic_limit = IntBytes(5, 0), !.traffic_used = IntBytes(0, 1024),
       !.is_active = FALSE, !.is_blocked = TRUE, !.owner_id = 2]
ClientB ==
    [NewClient EXCEPT
       !.name = T_x, !.public_key = 2, !.private_key = 2,
       !.ip_address = "10.0.0.3", !.owner_id = 3]
ClientC == [ClientB EXCEPT !.name = T_ab, !.owner_id = NULL]
ClientD == [ClientB EXCEPT !.ip_address = "10.0.0.2", !.owner_id = 2]
SampleClients == {ClientA, ClientB, ClientC, ClientD}

DbFrame == <<livePeers, fsmVars, cfgVars>>

\* await db.add_client(client): the INSERT raises IntegrityError when a
\* constraint refuses it, else the row gets the next id
db_add_client(c) ==
    /\ IF ~InsertAccepted(clients, c)
       THEN /\ UNCHANGED <<clients, nextId>>
            /\ last' = EventWith("db.add_client", 0, 0, "", "IntegrityError", c)
       ELSE /\ nextId <= MaxId + MaxRestored
            /\ clients' = add_client(clients, nextId, c)
            /\ nextId' = nextId + 1
            /\ last' = EventWith("db.add_client", 0, nextId, "", "ok", c)
    /\ UNCHANGED <<ipConns, createdBy, DbFrame>>

\* await db.delete_client(client_id): the answer tells whether a row was
\* deleted; data is the number of connection rows the client had
db_delete_client(id) ==
    /\ clients' = IF RowFound(clients, id) THEN delete_client(clients, id)
                  ELSE clients
    /\ ipConns' = cascade_delete(ipConns, {id})
    /\ createdBy' = Forget(createdBy, clients')
    /\ last' = EventWith("db.delete_client", 0, id, "",
                         IF RowFound(clients, id) THEN "true" ELSE "false",
                         Cardinality({r \in ipConns : r.client_id = id}))
    /\ UNCHANGED <<nextId, DbFrame>>

\* the answer of a fetch: fetchone() of the matching rows, through
\* _row_to_client; None when no row matches
Fetch(op, ids) ==
    /\ IF ids = {}
       THEN last' = EventWith(op, 0, 0, "", "None", NewClient)
       ELSE \E i \in ids :
              last' = EventWith(op, 0, i, "", "found", get_client(clients, i))
    /\ UNCHANGED <<dbVars, DbFrame>>

\* await db.get_client(client_id)
db_get_client(id) == Fetch("db.get_client", {id} \cap Ids)

\* await db.get_client_by_name(name)
db_get_client_by_name(name) ==
    Fetch("db.get_client_by_name", get_client_by_name(clients, name))

\* await db.get_client_by_public_key(public_key)
db_get_client_by_public_key(key) ==
    Fetch("db.get_client_by_public_key",
          {i \in Ids : clients[i].public_key = key})

\* await db.update_client(client) of a fetched client whose traffic_used was
\* set
db_update_client(id, used) ==
    /\ IF ~HasClient(clients, id)
       THEN /\ UNCHANGED clients
            /\ last' = Event("db.update_client", 0, id, "", "false")
       ELSE /\ clients' = update_client(
                              clients,
                              [get_client(clients, id) EXCEPT !.traffic_used = used])
            /\ last' = Event("db.update_client", 0, id, "", "true")
    /\ UNCHANGED <<nextId, ipConns, createdBy, DbFrame>>

\* await db.update_client(client) of any Client object: the answer is
\* cursor.rowcount > 0, or the IntegrityError of a name another row has
db_update_client_object(c) ==
    /\ IF ~HasClient(clients, c.id)
       THEN /\ UNCHANGED clients
            /\ last' = EventWith("db.update_client_object", 0, c.id, "",
                                 "false", c)
       ELSE IF ~UpdateAccepted(clients, c)
       THEN /\ UNCHANGED clients
            /\ last' = EventWith("db.update_client_object", 0, c.id, "",
                                 "IntegrityError", c)
       ELSE /\ clients' = update_client(clients, c)
            /\ last' = EventWith("db.update_client_object", 0, c.id, "",
                                 "true", c)
    /\ UNCHANGED <<nextId, ipConns, createdBy, DbFrame>>

\* await db.add_client_ip_connection(client_id, ip_address) on the day today
db_add_client_ip_connection(id, ip, today) ==
    /\ id \in Ids
    /\ \A r \in ipConns :
         r.client_id = id /\ r.ip_address = ip /\ r.date = today
            => r.connection_count < MaxCount
    /\ ipConns' = add_client_ip_connection(ipConns, id, ip, today)
    /\ last' = EventWith("db.add_client_ip_connection", 0, id, ip, "ok", today)
    /\ UNCHANGED <<clients, nextId, createdBy, DbFrame>>

\* await db.cleanup_old_ip_connections(days_to_keep) on the day today
db_cleanup_old_ip_connections(today, days_to_keep) ==
    /\ ipConns' = cleanup_old_ip_connections(ipConns, today, days_to_keep)
    /\ last' = EventWith("db.cleanup_old_ip_connections", 0, 0, "", "ok",
                         today - days_to_keep)
    /\ UNCHANGED <<clients, nextId, createdBy, DbFrame>>

\* await db.get_traffic_exceeded_clients()
db_get_traffic_exceeded_clients ==
    /\ last' = EventWith("db.get_traffic_exceeded_clients", 0, 0, "", "ok",
                         IdsOf(get_traffic_exceeded_clients(clients)))
    /\ UNCHANGED <<dbVars, DbFrame>>

\* await db.get_all_clients(owner_id)
db_get_all_clients(owner_id) ==
    /\ last' = EventWith("db.get_all_clients", owner_id, 0, "", "ok",
                         IdsOf(get_all_clients_scoped(clients, owner_id)))
    /\ UNCHANGED <<dbVars, DbFrame>>

\* await db.get_clients_paginated(offset, limit, owner_id)
db_get_clients_paginated(offset, limit, owner_id) ==
    /\ last' = EventWith("db.get_clients_paginated", owner_id, 0, "", "ok",
                         IdsOf(get_clients_paginated(clients, offset, limit,
                                                     owner_id)))
    /\ UNCHANGED <<dbVars, DbFrame>>

-----------------------------------------------------------------------------
(* handlers/admin_handlers.py: listings *)

-----------------------------------------------------------------------------
(* keyboards/main_keyboards.py *)

\* the 'latest handshake' strings of the interface statistics
T_hs_never ==
    <<"n", "e", "v", "e", "r">>
T_hs_Never ==
    <<"N", "e", "v", "e", "r">>
T_hs_now ==
    <<"N", "o", "w">>
T_hs_min ==
    <<"1", " ", "m", "i", "n", "u", "t", "e", ",", " ", "2", "0", " ", "s", "e", "c", "o", "n", "d", "s", " ", "a", "g", "o">>
T_hs_5d ==
    <<"5", " ", "D", "a", "y", "s", " ", "a", "g", "o">>
T_hs_week ==
    <<"1", " ", "w", "e", "e", "k", " ", "a", "g", "o">>
T_hs_week1 ==
    <<"1", " ", "w", "e", "e", "k", ",", " ", "1", " ", "s", "e", "c", "o", "n", "d", " ", "a", "g", "o">>
T_hs_2w ==
    <<"2", " ", "w", "e", "e", "k", "s", " ", "a", "g", "o">>
T_hs_2w1 ==
    <<"2", " ", "w", "e", "e", "k", "s", ",", " ", "1", " ", "s", "e", "c", "o", "n", "d", " ", "a", "g", "o">>
T_hs_month ==
    <<"1", " ", "m", "o", "n", "t", "h", " ", "a", "g", "o">>
T_hs_zero ==
    <<"0", " ", "s", "e", "c", "o", "n", "d", "s", " ", "a", "g", "o">>
T_hs_twice ==
    <<"1", " ", "w", "e", "e", "k", ",", " ", "1", " ", "w", "e", "e", "k", " ", "a", "g", "o">>
HandshakeTexts ==
    {T_hs_never, T_hs_Never, T_hs_now, T_hs_min, T_hs_5d, T_hs_week,
     T_hs_week1, T_hs_2w, T_hs_2w1, T_hs_month, T_hs_zero, T_hs_twice,
     AbsentText}

\* the last position of the run of digits that starts at i
RECURSIVE DigitRunEnd(_, _)
DigitRunEnd(t, i) ==
    IF i < Len(t) /\ t[i + 1] \in Digits THEN DigitRunEnd(t, i + 1) ELSE i

\* the first position at or after k that holds no blank
RECURSIVE AfterBlanks(_, _)
AfterBlanks(t, k) ==
    IF k <= Len(t) /\ t[k] = " " THEN AfterBlanks(t, k + 1) ELSE k

\* (\d+)\s*word matches at position i, whatever the case of the letters
MatchAt(t, i, word) ==
    /\ t[i] \in Digits
    /\ LET m == AfterBlanks(t, DigitRunEnd(t, i) + 1)
       IN /\ m + Len(word) - 1 <= Len(t)
          /\ Lower(SubSeq(t, m, m + Len(word) - 1)) = word

\* int(match.group(1)) of re.search: the number of the leftmost match, 0
\* when nothing matches
SearchNumber(t, word) ==
    IF \E i \in 1..Len(t) : MatchAt(t, i, word)
    THEN LET i == CHOOSE k \in 1..Len(t) :
                    MatchAt(t, k, word) /\ \A j \in 1..(k - 1) : ~MatchAt(t, j, word)
         IN Numeral(SubSeq(t, i, DigitRunEnd(t, i)), 0)
    ELSE 0

\* the unit words of patterns and their seconds; the Cyrillic alternatives
\* match no text of Latin letters
patterns ==
    <<[word |-> <<"s", "e", "c", "o", "n", "d">>, multiplier |-> 1],
      [word |-> <<"m", "i", "n", "u", "t", "e">>, multiplier |-> 60],
      [word |-> <<"h", "o", "u", "r">>, multiplier |-> 3600],
      [word |-> <<"d", "a", "y">>, multiplier |-> 86400],
      [word |-> <<"w", "e", "e", "k">>, multiplier |-> 604800],
      [word |-> <<"m", "o", "n", "t", "h">>, multiplier |-> 2592000],
      [word |-> <<"y", "e", "a", "r">>, multiplier |-> 31536000]>>

\* total_seconds after the first k patterns
RECURSIVE total_seconds(_, _)
total_seconds(t, k) ==
    IF k = 0 THEN 0
    ELSE total_seconds(t, k - 1)
            + SearchNumber(t, patterns[k].word) * patterns[k].multiplier

\* parse_handshake_to_days, in seconds: NULL for None
parse_handshake_to_days(handshake_str) ==
    IF handshake_str = <<>> \/ Lower(handshake_str) = T_hs_never THEN NULL
    ELSE IF total_seconds(handshake_str, Len(patterns)) = 0 THEN NULL
    ELSE total_seconds(handshake_str, Len(patterns))

\* get_activity_emoji; days <= d is total_seconds / 86400 <= d
get_activity_emoji(client, has_stats, handshake_str) ==
    LET seconds == parse_handshake_to_days(handshake_str)
    IN IF ~client.is_active \/ client.is_blocked THEN "red"
       ELSE IF ~has_stats THEN "white"
       ELSE IF seconds = NULL THEN "white"
       ELSE IF seconds <= 7 * 86400 THEN "green"
       ELSE IF seconds <= 14 * 86400 THEN "yellow"
       ELSE "orange"

\* seq[start:end] of Python
SliceIndex(i, n) == IF i < 0 THEN (IF i + n < 0 THEN 0 ELSE i + n)
                    ELSE IF i > n THEN n ELSE i
Slice(seq, start, end) ==
    SubSeq(seq, SliceIndex(start, Len(seq)) + 1, SliceIndex(end, Len(seq)))

\* get_client_list_keyboard: a button for every client of the page, then the
\* navigation buttons with the page each one asks for
get_client_list_keyboard(cl, page, per_page, peers, handshake) ==
    LET page_clients == Slice(cl, page * per_page, page * per_page + per_page)
        total_pages == (Len(cl) - 1) \div per_page + 1
        handshake_str == IF handshake = AbsentText THEN <<>> ELSE handshake
    IN [buttons |->
          [k \in 1..Len(page_clients) |->
             [id |-> page_clients[k].id,
              emoji |-> get_activity_emoji(
                            page_clients[k],
                            page_clients[k].public_key \in peers,
                            handshake_str)]],
        nav |->
          (IF page > 0
           THEN <<[text |-> "first", page |-> 0],
                  [text |-> "previous", page |-> page - 1]>>
           ELSE <<>>)
          \o (IF page < total_pages - 1
              THEN <<[text |-> "next", page |-> page + 1],
                     [text |-> "last", page |-> total_pages - 1]>>
              ELSE <<>>)]

\* the clients a handler lists for its sender: all of them for an admin,
\* the sender's own for anyone else
ClientsFor(u) ==
    get_all_clients_scoped(clients, IF is_admin(u) THEN NULL ELSE u)

\* clients_menu: the counts of the sender's clients
show_clients_menu(u) ==
    /\ last' = EventWith("clients_menu", u, 0, "", "listed", IdsOf(ClientsFor(u)))
    /\ UNCHANGED <<dbVars, livePeers, fsmVars, cfgVars>>

\* a handler that shows the page it was asked for
unclamped_page(n, total_pages) == n

\* if page < 0: page = 0; elif page >= total_pages: page = total_pages - 1
clamp_page(n, total_pages) ==
    IF n < 0 THEN 0 ELSE IF n >= total_pages THEN total_pages - 1 ELSE n

\* list_clients (n = 0) and clients_page:<n>; the statistics give every
\* live peer the same 'latest handshake'
show_clients_list(u, n, handshake) ==
    /\ LET cl == ClientsFor(u)
           per_page == 10
           total_pages == (Len(cl) - 1) \div per_page + 1
           page == clamp_page(n, total_pages)
       IN last' =
            IF cl = <<>>
            THEN EventWith("list_clients", u, 0, "", "none", IdsOf(cl))
            ELSE [op |-> "list_clients", user |-> u, client |-> 0, arg |-> "",
                  result |-> "listed", data |-> IdsOf(cl),
                  requested |-> n, page |-> page, total_pages |-> total_pages,
                  handshake |-> handshake,
                  keyboard |-> get_client_list_keyboard(
                                   cl, page, per_page, livePeers, handshake)]
    /\ UNCHANGED <<dbVars, livePeers, fsmVars, cfgVars>>

\* search_client
start_search_client(u) ==
    /\ fsmState' = [fsmState EXCEPT ![u] = "ClientStates:waiting_client_search"]
    /\ last' = Event("search_client", u, 0, "", "prompt")
    /\ UNCHANGED <<dbVars, livePeers, fsmData, cfgVars>>

\* text in ClientStates.waiting_client_search
process_search_client(u, text) ==
    /\ fsmState[u] = "ClientStates:waiting_client_search"
    /\ LET search_term == Lower(Strip(text))
           all_clients == ClientsFor(u)
           Found(c) == Contains(search_term, Lower(c.name))
           found_clients == SelectSeq(all_clients, Found)
       IN
       IF search_term = <<>>
       THEN /\ UNCHANGED fsmVars
            /\ last' = EventWith("text:search", u, 0, "", "invalid", <<>>)
       ELSE /\ Clear(u)
            /\ last' = EventWith("text:search", u, 0, "",
                                 IF found_clients = <<>> THEN "none" ELSE "listed",
                                 IdsOf(found_clients))
    /\ UNCHANGED <<dbVars, livePeers, cfgVars>>

-----------------------------------------------------------------------------
(* handlers/admin_handlers.py: handlers as tasks that yield at each await *)

\* the frame of a step that only moves a task
TaskFrame ==
    <<dbVars, livePeers, fsmVars, default_endpoint, default_dns, archives,
      ipv6_enabled, pool>>

\* a task keeps its locals while it waits; a handler that returns is gone
Idle(t) == t \notin DOMAIN running
Suspend(t, locals) ==
    running' = [k \in DOMAIN running \cup {t} |->
                  IF k = t THEN locals ELSE running[k]]
Return(t) == running' = [k \in DOMAIN running \ {t} |-> running[k]]
At(t, place) == ~Idle(t) /\ running[t].at = place
Locals(place, u, client) ==
    [at |-> place, user |-> u, client |-> client, peers |-> {}, text |-> <<>>,
     arg |-> ""]

\* show_client_details: client = await db.get_client(client_id) and the
\* tests of the answer
show_client_details_fetch(t, u, id) ==
    /\ Idle(t)
    /\ IF ~HasClient(clients, id)
       THEN /\ UNCHANGED running
            /\ last' = Event("client_details", u, id, "", "not_found")
       ELSE IF access_refused(u, get_client(clients, id))
       THEN /\ UNCHANGED running
            /\ last' = Event("client_details", u, id, "", "denied")
       ELSE /\ Suspend(t, Locals("client_details:stats", u,
                                 get_client(clients, id)))
            /\ last' = Event("client_details:fetch", u, id, "", "ok")
    /\ UNCHANGED TaskFrame

\* show_client_details: stats = await awg_manager.get_interface_stats()
show_client_details_stats(t) ==
    /\ At(t, "client_details:stats")
    /\ running' = [running EXCEPT ![t].at = "client_details:update",
                                  ![t].peers = livePeers]
    /\ last' = Event("client_details:stats", running[t].user,
                     running[t].client.id, "", "ok")
    /\ UNCHANGED TaskFrame

\* show_client_details: await update_client_traffic_usage(client,
\* client_stats) with the Client fetched at the start, and the answer
show_client_details_update(t, transfer) ==
    /\ At(t, "client_details:update")
    /\ clients' = update_client_traffic_usage(
                      clients, running[t].peers, running[t].client, transfer)
    /\ Return(t)
    /\ last' = EventWith("client_details", running[t].user,
                         running[t].client.id, "", "shown", transfer)
    /\ UNCHANGED <<nextId, ipConns, createdBy, livePeers, fsmVars,
                   default_endpoint, default_dns, archives, ipv6_enabled, pool>>

\* toggle_client_block: the admin test, client = await db.get_client(...),
\* client.is_blocked = not client.is_blocked
toggle_client_block_fetch(t, u, id) ==
    /\ Idle(t)
    /\ IF ~is_admin(u)
       THEN /\ UNCHANGED running
            /\ last' = Event("toggle_block", u, id, "", "denied")
       ELSE IF ~HasClient(clients, id)
       THEN /\ UNCHANGED running
            /\ last' = Event("toggle_block", u, id, "", "not_found")
       ELSE LET c0 == get_client(clients, id) IN
            /\ Suspend(t, Locals("toggle_block:apply", u,
                                 [c0 EXCEPT !.is_blocked = ~c0.is_blocked]))
            /\ last' = Event("toggle_block:fetch", u, id, "", "ok")
    /\ UNCHANGED TaskFrame

\* toggle_client_block: success = await remove_peer_from_server(...) or
\* await add_peer_to_server(...); the handler answers at once when it failed
toggle_client_block_apply(t, ok) ==
    /\ At(t, "toggle_block:apply")
    /\ LET client == running[t].client IN
       /\ livePeers' =
            IF client.is_blocked
            THEN remove_peer_from_server(livePeers, client.public_key, ok)
            ELSE add_peer_to_server(livePeers, client.public_key, ok)
       /\ IF ok
          THEN /\ running' = [running EXCEPT ![t].at = "toggle_block:store"]
               /\ last' = Event("toggle_block:apply", running[t].user,
                                client.id, "", "ok")
          ELSE /\ Return(t)
               /\ last' = Event("toggle_block", running[t].user, client.id,
                                IF client.is_blocked THEN "block" ELSE "unblock",
                                "failed")
    /\ UNCHANGED <<dbVars, fsmVars, default_endpoint, default_dns, archives,
                   ipv6_enabled, pool>>

\* toggle_client_block: await db.update_client(client) and the answer
toggle_client_block_store(t) ==
    /\ At(t, "toggle_block:store")
    /\ clients' = store_if_applied(clients, running[t].client, TRUE)
    /\ Return(t)
    /\ last' = Event("toggle_block", running[t].user, running[t].client.id,
                     IF running[t].client.is_blocked THEN "block" ELSE "unblock",
                     "ok")
    /\ UNCHANGED <<nextId, ipConns, createdBy, livePeers, fsmVars,
                   default_endpoint, default_dns, archives, ipv6_enabled, pool>>

\* process_new_client_name: client = await db.get_client(client_id) and the
\* tests of the text
process_new_client_name_fetch(t, u, text) ==
    /\ Idle(t)
    /\ fsmState[u] = "EditClientStates:waiting_new_name"
    /\ LET new_name == Strip(text)
           client_id == GetInt(fsmData[u].edit_client_id)
       IN
       IF ~NameLengthOk(new_name) \/ ~NameCharsOk(new_name)
       THEN /\ UNCHANGED running
            /\ last' = EventWith("text:new_name", u, client_id, "", "invalid",
                                 text)
       ELSE /\ Suspend(t, [Locals("new_name:lookup", u,
                                  IF HasClient(clients, client_id)
                                  THEN get_client(clients, client_id)
                                  ELSE NewClient)
                             EXCEPT !.text = new_name])
            /\ last' = EventWith("text:new_name:fetch", u, client_id, "", "ok",
                                 text)
    /\ UNCHANGED TaskFrame

\* process_new_client_name: existing_client = await
\* db.get_client_by_name(new_name), then client.name = new_name
process_new_client_name_lookup(t) ==
    /\ At(t, "new_name:lookup")
    /\ LET client == running[t].client
           u == running[t].user
           client_id == GetInt(fsmData[u].edit_client_id)
       IN
       IF get_client_by_name(clients, running[t].text) \ {client_id} # {}
       THEN /\ Return(t)
            /\ last' = EventWith("text:new_name", u, client_id, "",
                                 "duplicate", running[t].text)
       ELSE IF client.id = NULL
       THEN \* client is None: AttributeError leaves the handler
            /\ Return(t)
            /\ last' = EventWith("text:new_name", u, client_id, "", "crash",
                                 running[t].text)
       ELSE /\ running' = [running EXCEPT
                             ![t].at = "new_name:store",
                             ![t].client.name = running[t].text]
            /\ last' = EventWith("text:new_name:lookup", u, client_id, "",
                                 "ok", running[t].text)
    /\ UNCHANGED TaskFrame

\* process_new_client_name: await db.update_client(client), await
\* state.clear()
process_new_client_name_store(t) ==
    /\ At(t, "new_name:store")
    /\ IF UpdateAccepted(clients, running[t].client)
       THEN /\ clients' = update_client(clients, running[t].client)
            /\ Clear(running[t].user)
            /\ last' = EventWith("text:new_name", running[t].user,
                                 running[t].client.id, "", "ok", running[t].text)
       ELSE \* IntegrityError leaves the handler
            /\ UNCHANGED <<clients, fsmVars>>
            /\ last' = EventWith("text:new_name", running[t].user,
                                 running[t].client.id, "", "crash",
                                 running[t].text)
    /\ Return(t)
    /\ UNCHANGED <<nextId, ipConns, createdBy, livePeers, default_endpoint,
                   default_dns, archives, ipv6_enabled, pool>>

\* the keys that tasks hold in their locals
KeysHeld == {running[k].client.public_key : k \in DOMAIN running}

\* process_traffic_limit up to the Client(...) it builds: the wizard data,
\* the generated keys, ip_address = await get_next_available_ip()
process_traffic_limit_allocate(t, u, choice) ==
    /\ Idle(t)
    /\ LET data == fsmData[u]
           key == generate_keypair(KeysInUse \cup KeysHeld)
           ip_address == get_next_available_ip(clients)
           has_ipv6 == data.has_ipv6 = "yes"
           want6 == has_ipv6 /\ ipv6_enabled
           ipv6_address == IF want6 THEN get_next_available_ipv6(clients) ELSE ""
           client ==
             [NewClient EXCEPT
                !.name = GetText(data.name), !.public_key = key,
                !.private_key = key, !.preshared_key = key,
                !.ip_address = ip_address, !.ipv6_address = ipv6_address,
                !.has_ipv6 = has_ipv6, !.endpoint = GetText(data.endpoint),
                !.expires_at = GetInt(data.expires_at),
                !.traffic_limit = StoredTrafficText(choice),
                !.is_active = TRUE, !.is_blocked = FALSE,
                !.owner_id = wizard_owner_id(u)]
       IN
       /\ key <= MaxKeys
       /\ IF want6 /\ ipv6_address = ""
          THEN \* editor_send_message is not defined: NameError, caught
               /\ Clear(u)
               /\ UNCHANGED running
               /\ last' = EventWith("traffic_limit", u, 0, choice, "error",
                                    client)
          ELSE IF ip_address = ""
          THEN /\ Clear(u)
               /\ UNCHANGED running
               /\ last' = EventWith("traffic_limit", u, 0, choice, "no_ip",
                                    client)
          ELSE /\ UNCHANGED fsmVars
               /\ Suspend(t, [Locals("traffic_limit:insert", u, client)
                                EXCEPT !.arg = choice])
               /\ last' = EventWith("traffic_limit:allocate", u, 0, choice,
                                    "ok", client)
    /\ UNCHANGED <<dbVars, livePeers, default_endpoint, default_dns, archives,
                   ipv6_enabled, pool>>

\* process_traffic_limit: client_id = await db.add_client(client); an
\* IntegrityError goes to except Exception, then await state.clear()
process_traffic_limit_insert(t) ==
    /\ At(t, "traffic_limit:insert")
    /\ LET client == running[t].client
           u == running[t].user
       IN
       IF ~InsertAccepted(clients, client)
       THEN /\ UNCHANGED <<dbVars, livePeers>>
            /\ Clear(u)
            /\ Return(t)
            /\ last' = EventWith("traffic_limit", u, 0, running[t].arg, "error",
                                 client)
       ELSE /\ nextId <= MaxId + MaxRestored
            /\ clients' = add_client(clients, nextId, client)
            /\ nextId' = nextId + 1
            /\ createdBy' = [i \in DOMAIN createdBy \cup {nextId} |->
                               IF i = nextId THEN u ELSE createdBy[i]]
            /\ running' = [running EXCEPT ![t].at = "traffic_limit:apply",
                                          ![t].client.id = nextId]
            /\ last' = EventWith("traffic_limit:insert", u, nextId,
                                 running[t].arg, "ok", client)
            /\ UNCHANGED <<ipConns, livePeers, fsmVars>>
    /\ UNCHANGED <<default_endpoint, default_dns, archives, ipv6_enabled, pool>>

\* process_traffic_limit: success = await add_peer_to_server(client), the
\* deletion of the row when it failed, await state.clear()
process_traffic_limit_apply(t, apply_ok) ==
    /\ At(t, "traffic_limit:apply")
    /\ LET client == running[t].client
           u == running[t].user
       IN
       /\ livePeers' = add_peer_to_server(livePeers, client.public_key, apply_ok)
       /\ IF apply_ok
          THEN /\ UNCHANGED <<clients, ipConns, createdBy>>
               /\ last' = EventWith("traffic_limit", u, client.id,
                                    running[t].arg, "created", client)
          ELSE /\ clients' = IF RowFound(clients, client.id)
                             THEN delete_client(clients, client.id)
                             ELSE clients
               /\ ipConns' = cascade_delete(ipConns, {client.id})
               /\ createdBy' = Forget(createdBy, clients')
               /\ last' = EventWith("traffic_limit", u, client.id,
                                    running[t].arg, "apply_failed", client)
       /\ Clear(u)
       /\ Return(t)
    /\ UNCHANGED <<nextId, default_endpoint, default_dns, archives,
                   ipv6_enabled, pool>>

-----------------------------------------------------------------------------
(* Runs of the bot that exercise one group of handlers *)

InitV4 == Init /\ ~ipv6_enabled

\* the users who hold conversations, and the texts and buttons they send
Talkers == {1, 2}
WizardNames == {T_ab, T_x, T_bang}
WizardEndpoints == {T_host1, T_blank}
WizardTimeCodes == {"1d", "custom"}
WizardTraffic == {"5", "100", "unlimited"}

\* the default endpoint and the add-client wizard
NextWizard ==
    \/ \E u \in Talkers : start_endpoint_setup(u)
    \/ \E u \in Talkers, t \in WizardEndpoints : process_endpoint_setup(u, t)
    \/ \E u \in Talkers : confirm_clear_endpoint(u)
    \/ \E u \in Talkers : start_add_client(u)
    \/ \E u \in Talkers, t \in WizardNames : process_client_name(u, t)
    \/ \E u \in Talkers, t \in WizardEndpoints : process_client_endpoint(u, t)
    \/ \E u \in Talkers, code \in WizardTimeCodes : process_time_limit(u, code)
    \/ \E u \in Talkers : cancel_add_client(u)
    \/ \E u \in Talkers, choice \in WizardTraffic, ok \in BOOLEAN :
          process_traffic_limit(u, choice, ok)

SpecWizard == InitV4 /\ [][NextWizard]_vars

\* the wizard's text steps under good and bad inputs
T_five == <<"5">>
T_zero == <<"0">>
T_1001 == <<"1", "0", "0", "1">>
CustomValues == {T_five, T_zero, T_1001, T_x}
NextInput ==
    \/ \E u \in admin_ids : start_endpoint_setup(u)
    \/ \E u \in admin_ids : process_endpoint_setup(u, T_host1)
    \/ \E u \in admin_ids : confirm_clear_endpoint(u)
    \/ \E u \in Talkers : start_add_client(u)
    \/ \E u \in Talkers, t \in WizardNames : process_client_name(u, t)
    \/ \E u \in Talkers, t \in WizardEndpoints : process_client_endpoint(u, t)
    \/ \E u \in Talkers : process_custom_time_unit(u, "hours")
    \/ \E u \in Talkers, t \in CustomValues : process_custom_time_value(u, t)
    \/ \E u \in Talkers : process_traffic_limit(u, "5", TRUE)

SpecInput == InitV4 /\ [][NextInput]_vars

\* naming and renaming clients
NameInputs == {T_ab, T_sp_ab, T_c_d, T_x, T_bang, T_zhe, T_len32, T_len33}
NextName ==
    \/ \E u \in admin_ids : start_endpoint_setup(u)
    \/ \E u \in admin_ids : process_endpoint_setup(u, T_host1)
    \/ \E u \in admin_ids : start_add_client(u)
    \/ \E u \in admin_ids, t \in NameInputs : process_client_name(u, t)
    \/ \E u \in admin_ids : process_traffic_limit(u, "5", TRUE)
    \/ \E u \in admin_ids, id \in ClientIds : edit_client_name(u, id)
    \/ \E u \in admin_ids, t \in NameInputs : process_new_client_name(u, t)

SpecName == InitV4 /\ [][NextName]_vars

\* the shortest conversations that store a client: the admin sets the
\* default endpoint, an admin or a user names a client and presses a
\* traffic button
Provision ==
    \/ \E u \in admin_ids : start_endpoint_setup(u)
    \/ \E u \in admin_ids : process_endpoint_setup(u, T_host1)
    \/ \E u \in Talkers : start_add_client(u)
    \/ \E u \in Talkers, t \in {T_ab, T_x} : process_client_name(u, t)
    \/ \E u \in Talkers : process_traffic_limit(u, "5", TRUE)

\* the shortest conversation in which the admin stores a client
ProvisionByAdmin ==
    \/ \E u \in admin_ids : start_add_client(u)
    \/ \E u \in admin_ids : process_client_name(u, T_ab)
    \/ \E u \in admin_ids : process_traffic_limit(u, "5", TRUE)

\* the ids the wizard has handed out or will
WizardIds == 1..MaxId

\* viewing stored clients
NextAccess ==
    \/ Provision
    \/ \E u \in Users, id \in WizardIds, transfer \in TrafficSamples :
          show_client_details(u, id, transfer)
    \/ \E u \in Users, id \in WizardIds, transfer \in TrafficSamples :
          back_from_config(u, id, transfer)
    \/ \E u \in Users, id \in WizardIds : send_client_config(u, id)
    \/ \E u \in Users, id \in WizardIds : send_client_qr(u, id)
    \/ \E u \in Users, id \in WizardIds : show_client_ip_info(u, id)
    \/ \E u \in Users, id \in WizardIds : show_client_stats(u, id)

SpecAccess == InitV4 /\ [][NextAccess]_vars

\* refreshing the traffic of a stored client from the statistics
TransferTexts ==
    {T_tr_zero, T_tr_kib, T_tr_mixed, T_tr_gib, T_tr_tib, T_tr_mib, T_tr_one,
     T_tr_bad, AbsentText}
NextTraffic ==
    \/ ProvisionByAdmin
    \/ \E u \in admin_ids, id \in WizardIds, transfer \in TransferTexts :
          show_client_details(u, id, transfer)
    \/ \E u \in admin_ids, id \in WizardIds, transfer \in TransferTexts :
          back_from_config(u, id, transfer)
    \/ \E u \in admin_ids, id \in WizardIds :
          toggle_client_block(u, id, TRUE)

SpecTraffic == InitV4 /\ [][NextTraffic]_vars

\* blocking and deleting stored clients that have connection rows
NextBlock ==
    \/ Provision
    \/ \E u \in Users, id \in WizardIds, ok \in BOOLEAN : toggle_client_block(u, id, ok)
    \/ \E u \in Users, id \in WizardIds : confirm_delete_client(u, id)
    \/ \E u \in Users, id \in WizardIds, ok \in BOOLEAN :
          delete_client_confirmed(u, id, ok)
    \/ \E id \in WizardIds, ip \in PeerAddresses : RecordConnection(id, ip)

SpecBlock == InitV4 /\ [][NextBlock]_vars

\* the user whose edit requests are followed; the admin provisions and blocks
Editors == {2}
NextEdit ==
    \/ ProvisionByAdmin
    \/ \E u \in Editors, id \in WizardIds : edit_client_name(u, id)
    \/ \E u \in Editors, t \in {T_x, T_bang} : process_new_client_name(u, t)
    \/ \E u \in Editors, id \in WizardIds : edit_client_endpoint(u, id)
    \/ \E u \in Editors, t \in {T_host2, T_blank} : process_new_client_endpoint(u, t)
    \/ \E u \in Editors, id \in WizardIds : edit_client_expiry(u, id)
    \/ \E u \in Editors, id \in WizardIds, code \in {"1d", "custom"} :
          process_edit_time_limit(u, id, code)
    \/ \E u \in Editors, id \in WizardIds, unit \in {"days"} :
          process_edit_custom_time_unit(u, id, unit)
    \/ \E u \in Editors, t \in NumberTexts : process_edit_custom_time_value(u, t)
    \/ \E u \in Editors, id \in WizardIds : edit_client_traffic(u, id)
    \/ \E u \in Editors, id \in WizardIds, choice \in {"10", "unlimited"} :
          process_edit_traffic_limit(u, id, choice)
    \/ \E u \in Editors, id \in WizardIds : confirm_regenerate_keys(u, id)
    \/ \E u \in Editors, id \in WizardIds, r \in BOOLEAN, a \in BOOLEAN :
          regenerate_client_keys(u, id, r, a)
    \/ \E u \in admin_ids, id \in WizardIds, ok \in BOOLEAN :
          toggle_client_block(u, id, ok)

SpecEdit == InitV4 /\ [][NextEdit]_vars

\* blocking, regenerating, deleting, archiving and restoring
NextBackup ==
    \/ ProvisionByAdmin
    \/ \E u \in Talkers, id \in ClientIds, ok \in BOOLEAN : toggle_client_block(u, id, ok)
    \/ \E u \in Talkers, id \in ClientIds, r \in BOOLEAN, a \in BOOLEAN :
          regenerate_client_keys(u, id, r, a)
    \/ \E u \in Talkers, id \in ClientIds, ok \in BOOLEAN :
          delete_client_confirmed(u, id, ok)
    \/ \E u \in Talkers : create_backup(u)
    \/ \E u \in Talkers, file \in ArchiveFiles : confirm_restore_backup(u, file)

SpecBackup == InitV4 /\ [][NextBackup]_vars

\* the addresses connections are observed from
DbPeerAddresses == {"198.51.100.7", "198.51.100.8"}

\* callers of the database API
NextDb ==
    \/ \E c \in SampleClients : db_add_client(c)
    \/ \E id \in ClientIds : db_delete_client(id)
    \/ \E id \in ClientIds : db_get_client(id)
    \/ \E name \in {T_ab, T_x} : db_get_client_by_name(name)
    \/ \E key \in 1..MaxKeys : db_get_client_by_public_key(key)
    \/ \E id \in ClientIds, ip \in DbPeerAddresses : RecordConnection(id, ip)

SpecDb == InitV4 /\ [][NextDb]_vars

\* clients with a limit of 1000 bytes, of 5 GiB, without a limit, and with
\* the text 'unlimited' in the column, and the usage counts written to them
LimitedClients ==
    {[ClientC EXCEPT !.public_key = 1, !.ip_address = "10.0.0.2",
                     !.traffic_limit = IntBytes(0, 1000)],
     [ClientB EXCEPT !.traffic_limit = IntBytes(5, 0)],
     ClientB,
     [ClientB EXCEPT !.traffic_limit = TextUnlimited]}
UsageSamples ==
    {IntBytes(0, 999), IntBytes(0, 1000), IntBytes(4, 1073741823),
     IntBytes(5, 0)}
NextExceeded ==
    \/ \E c \in LimitedClients : db_add_client(c)
    \/ \E id \in ClientIds : db_delete_client(id)
    \/ \E id \in ClientIds, used \in UsageSamples : db_update_client(id, used)
    \/ db_get_traffic_exceeded_clients

SpecExceeded == InitV4 /\ [][NextExceeded]_vars

\* updates of stored and of missing rows with Client objects that differ from
\* the row in every attribute
StoredClients ==
    {[ClientC EXCEPT !.public_key = 1, !.private_key = 1,
                     !.ip_address = "10.0.0.2"],
     ClientB}
EditedClient ==
    [NewClient EXCEPT
       !.name = T_c_d, !.public_key = 3, !.private_key = 3,
       !.preshared_key = 3, !.ip_address = "10.0.0.9",
       !.ipv6_address = "fd00::9", !.has_ipv6 = TRUE, !.endpoint = T_host1,
       !.expires_at = 5, !.traffic_limit = IntBytes(5, 0),
       !.traffic_used = IntBytes(0, 999), !.is_active = FALSE,
       !.is_blocked = TRUE, !.last_ip = "1.2.3.4", !.daily_ips = "1.2.3.4",
       !.owner_id = 2]
UpdateObjects ==
    {[c EXCEPT !.id = id] :
        c \in {EditedClient, [EditedClient EXCEPT !.name = T_x], ClientB},
        id \in ClientIds \cup {NULL}}
NextUpdate ==
    \/ \E c \in StoredClients : db_add_client(c)
    \/ \E id \in ClientIds : db_delete_client(id)
    \/ \E id \in ClientIds, ip \in {"1.2.3.4"} : RecordConnection(id, ip)
    \/ \E c \in UpdateObjects : db_update_client_object(c)

SpecUpdate == InitV4 /\ [][NextUpdate]_vars

\* the add-client wizard with IPv6 enabled
InitV6 == Init /\ ipv6_enabled
NextIpv6 ==
    \/ \E u \in Talkers : start_add_client(u)
    \/ \E u \in Talkers, t \in {T_ab, T_c_d} : process_client_name(u, t)
    \/ \E u \in Talkers, yes \in BOOLEAN : process_ipv6_choice(u, yes)
    \/ \E u \in Talkers : process_client_endpoint(u, T_host1)
    \/ \E u \in Talkers : process_time_limit(u, "1d")
    \/ \E u \in Talkers, ok \in BOOLEAN : process_traffic_limit(u, "5", ok)

SpecIpv6 == InitV6 /\ [][NextIpv6]_vars

\* handlers of one client that run as concurrent tasks
Tasks == {1, 2}
NextTasks ==
    \/ ProvisionByAdmin
    \/ \E t \in Tasks, u \in admin_ids, id \in WizardIds :
          show_client_details_fetch(t, u, id)
    \/ \E t \in Tasks : show_client_details_stats(t)
    \/ \E t \in Tasks : show_client_details_update(t, T_tr_kib)
    \/ \E t \in Tasks, u \in admin_ids, id \in WizardIds :
          toggle_client_block_fetch(t, u, id)
    \/ \E t \in Tasks, ok \in BOOLEAN : toggle_client_block_apply(t, ok)
    \/ \E t \in Tasks : toggle_client_block_store(t)
    \/ \E u \in admin_ids, id \in WizardIds : edit_client_name(u, id)
    \/ \E t \in Tasks, u \in admin_ids :
          process_new_client_name_fetch(t, u, T_c_d)
    \/ \E t \in Tasks : process_new_client_name_lookup(t)
    \/ \E t \in Tasks : process_new_client_name_store(t)

SpecTasks == InitV4 /\ [][NextTasks]_vars

\* add-client wizards whose final steps run as concurrent tasks, the task of
\* a user's final step being numbered as the user
InitRace ==
    /\ clients = <<>>
    /\ nextId = 1
    /\ ipConns = {}
    /\ createdBy = <<>>
    /\ livePeers = {}
    /\ default_endpoint = T_host1
    /\ default_dns = T_dns1
    /\ fsmState = [u \in Users |-> "none"]
    /\ fsmData = [u \in Users |-> EmptyData]
    /\ archives = <<>>
    /\ ipv6_enabled = FALSE
    /\ pool = NewPool
    /\ running = <<>>
    /\ last = Event("start", 0, 0, "", "ok")
NextRace ==
    \/ \E u \in Talkers : start_add_client(u)
    \/ \E u \in Talkers, t \in {T_ab, T_c_d} : process_client_name(u, t)
    \/ \E u \in Talkers : process_traffic_limit_allocate(u, u, "5")
    \/ \E t \in Tasks : process_traffic_limit_insert(t)
    \/ \E t \in Tasks, ok \in BOOLEAN : process_traffic_limit_apply(t, ok)

SpecRace == InitRace /\ [][NextRace]_vars

\* tasks that meet a pool nobody has initialized
NextPoolInit ==
    \/ \E t \in PoolTasks : pool_acquire(t)
    \/ \E t \in PoolTasks : pool_initialize(t)
    \/ \E t \in PoolTasks : pool_release(t)

SpecPoolInit == InitV4 /\ [][NextPoolInit]_vars

\* observations and purges of connection rows over a few days
MaxDay == 1
Days == 0..MaxDay
KeepDays == {0, 1}
ObservedIps == {"1.2.3.4", "5.6.7.8"}
NextConnections ==
    \/ db_add_client(ClientB)
    \/ \E id \in ClientIds : db_delete_client(id)
    \/ \E id \in ClientIds, ip \in ObservedIps, d \in Days :
          db_add_client_ip_connection(id, ip, d)
    \/ \E d \in Days, k \in KeepDays : db_cleanup_old_ip_connections(d, k)

SpecConnections == InitV4 /\ [][NextConnections]_vars

\* archives found in the backup directory that create_backup did not
\* write: one without the manifest, one whose manifest names a client twice
ArchiveNoManifest == [members |-> {"database.db"}, clients |-> <<>>]
ArchiveDuplicate ==
    [members |-> archive_members,
     clients |-> <<client_data(ClientA), client_data(ClientC)>>]
SampleArchives == {ArchiveNoManifest, ArchiveDuplicate}

\* a file put into the backup directory from outside the bot
PlaceArchive(file, a) ==
    /\ file \notin DOMAIN archives
    /\ Cardinality(DOMAIN archives) < MaxArchives
    /\ archives' = [f \in DOMAIN archives \cup {file} |->
                      IF f = file THEN a ELSE archives[f]]
    /\ last' = EventWith("place_archive", 0, 0, "", "ok", BackupAnswer(file, {}))
    /\ UNCHANGED <<dbVars, livePeers, fsmVars, default_endpoint, default_dns,
                   ipv6_enabled, pool, running>>

\* the backup handlers over a table filled by direct inserts
NextArchive ==
    \/ \E c \in {ClientA, ClientB} : db_add_client(c)
    \/ \E id \in ClientIds : db_delete_client(id)
    \/ \E file \in 1..MaxArchives, a \in SampleArchives : PlaceArchive(file, a)
    \/ \E u \in Talkers : show_backup_menu(u)
    \/ \E u \in Talkers : create_backup(u)
    \/ \E u \in Talkers : list_backups(u)
    \/ \E u \in Talkers, file \in ArchiveFiles : show_backup_details(u, file)
    \/ \E u \in Talkers, file \in ArchiveFiles : restore_backup_confirm(u, file)
    \/ \E u \in Talkers, file \in ArchiveFiles : confirm_restore_backup(u, file)
    \/ \E u \in Talkers, file \in ArchiveFiles : delete_backup_confirm(u, file)
    \/ \E u \in Talkers, file \in ArchiveFiles : confirm_delete_backup(u, file)

SpecArchive == InitV4 /\ [][NextArchive]_vars

\* the settings screens and prompts, beside the start of the client wizard
NextSettings ==
    \/ \E u \in Users : show_settings_menu(u)
    \/ \E u \in Users : show_settings_info(u)
    \/ \E u \in Users : show_endpoint_settings(u)
    \/ \E u \in Users : clear_endpoint_confirm(u)
    \/ \E u \in Users : start_dns_setup(u)
    \/ \E u \in Users, t \in DnsTexts : process_dns_setup(u, t)
    \/ \E u \in Users : start_endpoint_setup(u)
    \/ \E u \in Users, t \in EndpointTexts : process_endpoint_setup(u, t)
    \/ \E u \in Users : confirm_clear_endpoint(u)
    \/ \E u \in Talkers : start_add_client(u)
    \/ \E u \in Talkers : cancel_add_client(u)

SpecSettings == InitV4 /\ [][NextSettings]_vars

\* the first steps of the add-client wizard and its cancel buttons, with
\* and without IPv6
NextCancel ==
    \/ \E u \in admin_ids : start_endpoint_setup(u)
    \/ \E u \in admin_ids : process_endpoint_setup(u, T_host1)
    \/ \E u \in Talkers : start_add_client(u)
    \/ \E u \in Talkers, t \in {T_ab, T_bang} : process_client_name(u, t)
    \/ \E u \in Talkers, yes \in BOOLEAN : process_ipv6_choice(u, yes)
    \/ \E u \in Talkers, t \in WizardEndpoints : process_client_endpoint(u, t)
    \/ \E u \in Talkers : show_clients_menu(u)
    \/ \E u \in Talkers : cancel_addclient(u)
    \/ \E u \in Talkers : cancel_add_client(u)

SpecCancel == Init /\ [][NextCancel]_vars

\* a pool in service after init_db
InitServing == InitRest /\ ~ipv6_enabled /\ pool = InitializedPool

\* tasks that take and give back connections of a pool in service
NextPool ==
    \/ \E t \in PoolTasks : pool_acquire(t)
    \/ \E t \in PoolTasks : pool_release(t)

SpecPool == InitServing /\ [][NextPool]_vars

\* tasks that use the pool from its construction on, and its closing
NextPoolClose ==
    \/ \E t \in PoolTasks : pool_acquire(t)
    \/ \E t \in PoolTasks : pool_initialize(t)
    \/ \E t \in PoolTasks : pool_release(t)
    \/ pool_close
    \/ pool_close_step

SpecPoolClose == InitV4 /\ [][NextPoolClose]_vars

\* the texts searched for
SearchTexts == {<<"A">>, T_x, T_blank}

\* listings of a table whose rows have several owners
NextList ==
    \/ \E c \in SampleClients : db_add_client(c)
    \/ \E id \in ClientIds : db_delete_client(id)
    \/ \E o \in Users \cup {NULL} : db_get_all_clients(o)
    \/ \E offset \in {0, 1}, limit \in {1, 10}, o \in Users \cup {NULL} :
          db_get_clients_paginated(offset, limit, o)
    \/ \E u \in Users : show_clients_menu(u)
    \/ \E u \in Users : show_clients_list(u, 0, T_hs_5d)
    \/ \E u \in Users : start_search_client(u)
    \/ \E u \in Users, t \in SearchTexts : process_search_client(u, t)

SpecList == InitV4 /\ [][NextList]_vars

\* a table of n clients of two owners, some of them blocked, expired or
\* away from the interface
ListLetters == <<"a", "b", "c", "d", "h", "x">>
ListedClient(i) ==
    [NewClient EXCEPT
       !.name = <<ListLetters[(i - 1) \div 6 + 1], ListLetters[6 - ((i - 1) % 6)]>>,
       !.public_key = i, !.private_key = i,
       !.ip_address = "10.0.1." \o ToString(i),
       !.is_blocked = (i % 5 = 0), !.is_active = (i % 7 # 0),
       !.owner_id = IF i % 2 = 0 THEN 2 ELSE 1]
InitListed ==
    /\ \E n \in 1..MaxListed :
          /\ clients = [i \in 1..n |-> Row(ListedClient(i))]
          /\ nextId = n + 1
          /\ createdBy = [i \in 1..n |-> ListedClient(i).owner_id]
          /\ livePeers = {i \in 1..n : i % 5 # 0 /\ i % 4 # 0}
    /\ ipConns = {}
    /\ default_endpoint = T_host1
    /\ default_dns = T_dns1
    /\ fsmState = [u \in Users |-> "none"]
    /\ fsmData = [u \in Users |-> EmptyData]
    /\ archives = <<>>
    /\ ipv6_enabled = FALSE
    /\ pool = InitializedPool
    /\ running = <<>>
    /\ last = Event("start", 0, 0, "", "ok")

\* opening the pages of the list
NextPage ==
    \E u \in Talkers, n \in (-1)..MaxPage : show_clients_list(u, n, T_hs_5d)

SpecPage == InitListed /\ [][NextPage]_vars

\* opening the list under every handshake string
NextIndicator ==
    \E u \in admin_ids, h \in HandshakeTexts : show_clients_list(u, 0, h)

SpecIndicator == InitListed /\ [][NextIndicator]_vars

-----------------------------------------------------------------------------
(* Properties *)

\* C1: every stored client whose is_blocked is true has no peer on the live
\* interface: its stored public key is not in the live peer set.
C1_BlockedClientHasNoPeer ==
    \A i \in Ids : clients[i].is_blocked => clients[i].public_key \notin livePeers

\* C2: when the final wizard step inserted the record and applying the peer
\* did not succeed, no record for that client remains when the step finishes.
C2_NoRecordAfterApplyFailure ==
    (last.op = "traffic_limit" /\ last.result = "apply_failed")
        => ~HasClient(clients, last.client)

\* an apply failure has just been answered, by a user whose wizard held a name
C2_ApplyFailureHappened ==
    /\ last.op = "traffic_limit"
    /\ last.result = "apply_failed"
    /\ last.client = nextId - 1
    /\ fsmState[last.user] = "none"

\* the edit requests and the text steps they open
EditOps ==
    {"edit_name", "text:new_name", "edit_endpoint", "text:new_endpoint",
     "edit_expiry", "edit_time_limit", "edit_custom_time_unit",
     "text:edit_time_value", "edit_traffic_limit", "edit_traffic_value",
     "regenerate_keys", "confirm_regenerate"}

\* C3: an edit request sent by a user who is not an administrator changes no
\* stored client field and no live peer.
C3_NonAdminEditChangesNothing ==
    [][(last'.op \in EditOps /\ last'.user \notin admin_ids)
          => UNCHANGED <<clients, livePeers>>]_vars

BlockDeleteOps == {"toggle_block", "delete_client", "confirm:delete_client"}

\* C4: a toggle_block, delete_client or confirm:delete_client request sent by
\* a user who is not an administrator is answered with the refusal alert, and
\* the stored clients, the IP-connection rows and the live peer set are
\* unchanged.
C4_NonAdminBlockDeleteRefused ==
    [][(last'.op \in BlockDeleteOps /\ last'.user \notin admin_ids)
          => /\ last'.result = "denied"
             /\ UNCHANGED <<clients, ipConns, livePeers>>]_vars

\* a non-admin has just been refused on a stored client that has a live peer
\* and IP-connection rows
C4_RefusedOnLiveClient ==
    /\ last.op \in BlockDeleteOps
    /\ last.user \notin admin_ids
    /\ last.result = "denied"
    /\ HasClient(clients, last.client)
    /\ clients[last.client].public_key \in livePeers
    /\ \E r \in ipConns : r.client_id = last.client

ViewOps == {"client_details", "back_from_config", "client_config", "client_qr",
            "client_ip_info", "client_stats"}

\* C5: a user who is neither an administrator nor the recorded owner of a
\* client is not shown that client through any callback carrying its id.
C5_StrangerNeverShown ==
    ~ /\ last.op \in ViewOps
      /\ last.result = "shown"
      /\ last.user \notin admin_ids
      /\ HasClient(clients, last.client)
      /\ clients[last.client].owner_id # last.user

\* C6: a non-administrator who is the recorded owner of a client is let
\* through by the ownership check of every view of that client.
C6_OwnerMayView ==
    (/\ last.op \in ViewOps
     /\ last.user \notin admin_ids
     /\ HasClient(clients, last.client)
     /\ clients[last.client].owner_id = last.user)
        => last.result = "shown"

\* C7: whenever a client record is created on behalf of a non-administrator,
\* a non-empty default endpoint is configured at that time.
C7_DefaultEndpointAtCreation ==
    (last.op = "traffic_limit" /\ last.result = "created"
       /\ last.user \notin admin_ids)
        => default_endpoint # <<>>

\* C8: every record the wizard created has owner_id equal to the user who
\* pressed the final button.
C8_OwnerIsCreator ==
    \A i \in Ids : i \in DOMAIN createdBy => clients[i].owner_id = createdBy[i]

\* a non-administrator's wizard has just stored a record
C8_UserCreatedRecord ==
    /\ last.op = "traffic_limit"
    /\ last.result = "created"
    /\ last.user \notin admin_ids
    /\ HasClient(clients, last.client)
    /\ createdBy[last.client] = last.user

\* C9: the record the wizard stores after the choice of N GB has
\* traffic_limit N x 1024^3 bytes, and after "unlimited" has none.
C9_StoredLimitInBytes ==
    (last.op = "traffic_limit" /\ last.result = "created")
        => clients[last.client].traffic_limit = traffic_limit_bytes(last.arg)

\* C10: after a key regeneration that reports success the stored record holds
\* a key pair other than the one it held before.
C10_StoredKeysAreFresh ==
    [][(last'.op = "confirm_regenerate" /\ last'.result = "ok")
          => /\ clients'[last'.client].public_key # clients[last'.client].public_key
             /\ clients'[last'.client].private_key # clients[last'.client].private_key]_vars

\* name and ip_address are unique across the stored clients
UniqueNameAndIp(tbl) ==
    \A i, j \in DOMAIN tbl :
        i # j => tbl[i].name # tbl[j].name /\ tbl[i].ip_address # tbl[j].ip_address

\* C11: inserting a client whose name or ip_address equals that of a stored
\* client fails and leaves every stored client unchanged; name and ip_address
\* are unique across the stored clients.
C11_DuplicateInsertFails ==
    [][/\ UniqueNameAndIp(clients')
       /\ (/\ last'.op = "db.add_client"
           /\ \E i \in Ids : \/ clients[i].name = last'.data.name
                             \/ clients[i].ip_address = last'.data.ip_address)
             => /\ last'.result = "IntegrityError"
                /\ clients' = clients]_vars

\* an insert has just failed on the ip_address of a stored client of another
\* name
C11_DuplicateIpRefused ==
    /\ last.op = "db.add_client"
    /\ last.result = "IntegrityError"
    /\ \E i \in Ids : /\ clients[i].ip_address = last.data.ip_address
                      /\ clients[i].name # last.data.name

FetchOps == {"db.get_client", "db.get_client_by_name",
             "db.get_client_by_public_key"}

\* the fields a caller supplies to add_client
SuppliedFields ==
    {"name", "public_key", "private_key", "preshared_key", "ip_address",
     "ipv6_address", "has_ipv6", "endpoint", "expires_at", "traffic_limit",
     "traffic_used", "is_active", "is_blocked", "owner_id"}

\* C12: a client fetched by id, by name or by public key right after its
\* insertion has, for every field supplied at insertion, the inserted value.
C12_FetchReturnsInserted ==
    [][(/\ last.op = "db.add_client"
        /\ last.result = "ok"
        /\ last'.op \in FetchOps
        /\ last'.result = "found"
        /\ last'.client = last.client)
          => \A f \in SuppliedFields : last'.data[f] = last.data[f]]_vars

\* the owner a listing was scoped to, NULL when it was not scoped
ScopeOf(e) ==
    IF e.op \in {"db.get_all_clients", "db.get_clients_paginated"} THEN e.user
    ELSE IF e.op \in {"clients_menu", "list_clients", "text:search"}
              /\ e.user \notin admin_ids THEN e.user
    ELSE NULL

\* C13: a listing scoped to owner A holds only clients whose owner_id is A,
\* and a whole listing (get_all_clients, clients menu, client list) holds
\* every one of them.
C13_ScopedListingIsOwners ==
    ScopeOf(last) # NULL
        => /\ \A k \in DOMAIN last.data :
                clients[last.data[k]].owner_id = ScopeOf(last)
           /\ last.op \in {"db.get_all_clients", "clients_menu", "list_clients"}
                => {last.data[k] : k \in DOMAIN last.data}
                     = {i \in Ids : clients[i].owner_id = ScopeOf(last)}

\* a non-administrator has just been listed a client of their own while a
\* client of another owner is stored
C13_OwnListedBesideOthers ==
    /\ last.op = "list_clients"
    /\ last.user \notin admin_ids
    /\ last.data # <<>>
    /\ \E i \in Ids : clients[i].owner_id # last.user

\* C14: a delete_client(id) that returns true leaves no IP-connection row of
\* that client, and every row of every other client is as it was.
C14_DeleteCascadesToConnections ==
    [][last'.op = "db.delete_client" /\ last'.result = "true"
         => /\ \A r \in ipConns' : r.client_id # last'.client
            /\ {r \in ipConns' : r.client_id # last'.client}
                 = {r \in ipConns : r.client_id # last'.client}]_vars

\* a client that had connection rows has just been deleted while rows of
\* another client are stored
C14_DeletedWithRowsBesideOthers ==
    /\ last.op = "db.delete_client"
    /\ last.result = "true"
    /\ last.data >= 1
    /\ \E r \in ipConns : r.client_id # last.client

BackupOps ==
    {"backup_menu", "create_backup", "list_backups", "backup_details",
     "restore_backup", "confirm_restore", "delete_backup",
     "confirm_delete_backup"}

\* C15: a backup-management request of a user who is not an administrator
\* creates, lists, shows, restores and deletes no archive.
C15_NonAdminBackupRefused ==
    [][last'.op \in BackupOps /\ last'.user \notin admin_ids
         => /\ archives' = archives
            /\ clients' = clients
            /\ last'.data.shown = {}]_vars

SettingsOps ==
    {"settings_menu", "settings_show", "settings_dns", "settings_endpoint",
     "set_default_endpoint", "clear_default_endpoint",
     "confirm_clear_endpoint", "text:settings_dns", "text:settings_endpoint"}

SettingsWizardStates ==
    {"SettingsStates:waiting_dns", "SettingsStates:waiting_endpoint"}

\* C16: a settings request of a user who is not an administrator changes
\* neither the stored default DNS list nor the stored default endpoint, and
\* no such user is ever in a settings wizard state.
C16_NonAdminSettingsUntouched ==
    [][/\ last'.op \in SettingsOps /\ last'.user \notin admin_ids
            => /\ default_dns' = default_dns
               /\ default_endpoint' = default_endpoint
       /\ \A u \in Users \ admin_ids : fsmState'[u] \notin SettingsWizardStates]_vars

\* a non-administrator has just asked for the DNS prompt while an
\* administrator's default endpoint and DNS list are stored
C16_NonAdminAskedForDnsPrompt ==
    /\ last.op = "settings_dns"
    /\ last.user \notin admin_ids
    /\ default_endpoint # <<>>
    /\ default_dns = T_dns2

\* C17: restore_backup of a file name the directory does not hold, or of an
\* archive without the member clients.json, fails and leaves every stored
\* client as it was.
C17_RestoreWithoutManifestFails ==
    [][(/\ last'.op = "confirm_restore"
        /\ last'.user \in admin_ids
        /\ \/ last'.data.file \notin DOMAIN archives
           \/ "clients.json" \notin archives[last'.data.file].members)
         => (/\ last'.result = "failed"
             /\ clients' = clients
             /\ ipConns' = ipConns)]_vars

\* an administrator has just asked to restore an archive without
\* clients.json while a client is stored
C17_RestoreOfManifestlessArchive ==
    /\ last.op = "confirm_restore"
    /\ last.user \in admin_ids
    /\ last.data.file \in DOMAIN archives
    /\ "clients.json" \notin archives[last.data.file].members
    /\ clients # <<>>

\* C18: a restore is all-or-nothing: after a restore of stored clients
\* that failed, the stored clients are exactly those stored before it.
C18_FailedRestoreChangesNothing ==
    [][last'.op = "confirm_restore" /\ last'.result = "failed" /\ clients # <<>>
         => clients' = clients]_vars

\* name, public key and IPv4 address of the rows of a table and of the
\* entries of a manifest
TableTriples(tbl) ==
    {<<tbl[i].name, tbl[i].public_key, tbl[i].ip_address>> : i \in DOMAIN tbl}
ManifestTriples(m) ==
    {<<m[k].name, m[k].public_key, m[k].ip_address>> : k \in DOMAIN m}

C21_CancelButtonClearsWizard ==
    [][(\/ last'.op = "cancel_add_client"
        \/ /\ last'.op = "cancel_addclient"
           /\ fsmState[last'.user] \in {"ClientStates:waiting_ipv6_choice",
                                        "ClientStates:waiting_endpoint"}
        \/ /\ last'.op = "clients_menu"
           /\ fsmState[last'.user] = "ClientStates:waiting_name"
           /\ fsmData[last'.user].name = AbsentText)
         => (/\ fsmState'[last'.user] = "none"
             /\ fsmData'[last'.user] = EmptyData)]_vars

C23_DnsStepValidates ==
    [][last'.op = "text:settings_dns" /\ last'.user \in admin_ids
         => IF last'.data \in {T_dns_bad, T_x}
            THEN /\ last'.result = "invalid"
                 /\ default_dns' = default_dns
                 /\ fsmState'[last'.user] = "SettingsStates:waiting_dns"
            ELSE /\ last'.result = "ok"
                 /\ get_default_dns' = last'.data
                 /\ fsmState'[last'.user] = "none"]_vars

\* an invalid list has just been rejected while a list set earlier is stored
C23_InvalidDnsRejected ==
    /\ last.op = "text:settings_dns"
    /\ last.result = "invalid"
    /\ last.data = T_dns_bad
    /\ default_dns = T_dns2

AllReleased(p) == \A t \in PoolTasks : p.tasks[t].pc = "idle"
SeqToSet(q) == {q[k] : k \in DOMAIN q}

\* C24: with every pooled connection checked out an acquire yields a newly
\* opened temporary connection; releasing a temporary connection closes it
\* and leaves the available list alone; releasing a pooled connection puts
\* that connection back; and once every holder has released, the available
\* list holds the pool_size pooled connections, each once.
C24_PoolReusesAndOverflows ==
    [][/\ last'.op = "pool.acquire" /\ pool.available = <<>>
            => /\ last'.result = "temp"
               /\ last'.client = pool.opened + 1
               /\ last'.client \notin SeqToSet(pool'.connections)
               /\ last'.client \notin pool'.closed
       /\ last'.op = "pool.release" /\ last'.result = "temp"
            => /\ last'.client \in pool'.closed
               /\ pool'.available = pool.available
       /\ last'.op = "pool.release" /\ last'.result = "pooled"
            => /\ pool'.available = Append(pool.available, last'.client)
               /\ last'.client \notin pool'.closed
       /\ AllReleased(pool')
            => /\ Len(pool'.available) = PoolSize
               /\ SeqToSet(pool'.available) = SeqToSet(pool'.connections)
               /\ Len(pool'.connections) = PoolSize]_vars

\* every holder has released, the last of them a temporary connection
C24_OverflowReleased ==
    /\ last.op = "pool.release"
    /\ last.result = "temp"
    /\ AllReleased(pool)
    /\ pool.opened > PoolSize

\* C25: when close() has returned, every connection the pool ever opened is
\* closed; and a connection handed out by an acquire after a close() is not
\* a closed one.
C25_CloseClosesAllForGood ==
    [][/\ last'.op = "pool.close" /\ last'.result = "closed"
            => 1..pool'.opened \subseteq pool'.closed
       /\ last'.op = "pool.acquire" /\ last'.result \in {"pooled", "temp"}
             /\ pool.closing = 0
            => last'.client \notin pool'.closed]_vars

\* C26: a refresh of a client's traffic turns the transfer string
\* "<value> <unit>, <value> <unit>" into received plus sent bytes with the
\* units B, KiB, MiB, GiB, TiB (powers of 1024) and KB, MB, GB, TB (powers of
\* 1000), whatever the case of the unit and with " received" / " sent"
\* dropped; the stored traffic_used becomes that sum, the table is left as it
\* was when the sum equals the stored value, and without statistics nothing
\* is written.
ExpectedTotals ==
    {<<T_tr_zero, IntBytes(0, 0)>>,
     <<T_tr_kib, IntBytes(0, 1024)>>,
     <<T_tr_mixed, IntBytes(0, 1536 + 2000)>>,
     <<T_tr_gib, IntBytes(2, 1000000000)>>,
     <<T_tr_tib, IntBytes(1024 + 931, 346361856)>>,
     <<T_tr_mib, IntBytes(0, 5 * 1048576 + 2500000)>>}
RefreshOps == {"client_details", "back_from_config"}
C26_TrafficParsedAndStored ==
    [][(last'.op \in RefreshOps /\ last'.result = "shown")
          => LET id == last'.client
                 c == clients[id]
             IN IF c.public_key \notin livePeers
                THEN clients' = clients
                ELSE \A e \in ExpectedTotals :
                       last'.data = e[1]
                          => /\ clients'[id].traffic_used = e[2]
                             /\ e[2] = c.traffic_used => clients' = clients
                             /\ \A j \in DOMAIN clients \ {id} :
                                   clients'[j] = clients[j]]_vars
C26_TebibytesStored ==
    /\ last.op = "client_details"
    /\ last.result = "shown"
    /\ last.data = T_tr_tib
    /\ HasClient(clients, last.client)
    /\ clients[last.client].traffic_used = IntBytes(1955, 346361856)

\* C27: the indicator of a listed client is red when the client is inactive
\* or blocked; else white without statistics, for a handshake "never" (in any
\* case), for an empty one and for one without a number and unit; else green
\* up to 7 days, yellow up to 14 days and orange beyond, the age being the sum
\* of all the numbers with their units.
ExpectedIndicators ==
    {<<T_hs_never, "white">>, <<T_hs_Never, "white">>, <<AbsentText, "white">>,
     <<T_hs_now, "white">>, <<T_hs_min, "green">>, <<T_hs_5d, "green">>,
     <<T_hs_week, "green">>, <<T_hs_week1, "yellow">>, <<T_hs_2w, "yellow">>,
     <<T_hs_2w1, "orange">>, <<T_hs_month, "orange">>, <<T_hs_zero, "green">>,
     <<T_hs_twice, "yellow">>}
C27_IndicatorFollowsAge ==
    (last.op = "list_clients" /\ last.result = "listed")
       => \A k \in DOMAIN last.keyboard.buttons :
            LET b == last.keyboard.buttons[k]
                c == clients[b.id]
            IN IF ~c.is_active \/ c.is_blocked THEN b.emoji = "red"
               ELSE IF c.public_key \notin livePeers THEN b.emoji = "white"
               ELSE \A e \in ExpectedIndicators :
                      last.handshake = e[1] => b.emoji = e[2]

\* C28: a list that is not empty is shown on a page within 0..total_pages-1,
\* whatever page was asked for; the buttons of the page are the clients of
\* that page of the list, at least one; "first" and "previous" are there
\* exactly on a page after the first, "next" and "last" exactly on a page
\* before the last, and each asks for a page within 0..total_pages-1.
NavTexts(kb) == {kb.nav[k].text : k \in DOMAIN kb.nav}
C28_PageClampedAndNavigable ==
    (last.op = "list_clients" /\ last.result = "listed")
       => LET total == Len(last.data)
              kb == last.keyboard
              from == last.page * 10 + 1
              to == IF last.page * 10 + 10 < total THEN last.page * 10 + 10
                    ELSE total
          IN /\ last.total_pages * 10 >= total
             /\ (last.total_pages - 1) * 10 < total
             /\ last.page \in 0..(last.total_pages - 1)
             /\ kb.buttons # <<>>
             /\ [k \in DOMAIN kb.buttons |-> kb.buttons[k].id]
                  = SubSeq(last.data, from, to)
             /\ ("first" \in NavTexts(kb)) = (last.page > 0)
             /\ ("previous" \in NavTexts(kb)) = (last.page > 0)
             /\ ("next" \in NavTexts(kb)) = (last.page < last.total_pages - 1)
             /\ ("last" \in NavTexts(kb)) = (last.page < last.total_pages - 1)
             /\ \A k \in DOMAIN kb.nav :
                   kb.nav[k].page \in 0..(last.total_pages - 1)
C28_BeyondLastPageAsked ==
    /\ last.op = "list_clients"
    /\ last.result = "listed"
    /\ last.total_pages = 3
    /\ last.requested >= last.total_pages
    /\ last.page = 2
    /\ Len(last.keyboard.buttons) = 1

\* C29: the traffic-exceeded query returns the stored clients that have a
\* traffic limit and have used at least that much: usage equal to the limit
\* is in, usage one byte below it is out, and a client without a limit is out
\* whatever it used.
C29_ExceededIsAtOrOverLimit ==
    last.op = "db.get_traffic_exceeded_clients"
       => LET found == {last.data[k] : k \in DOMAIN last.data}
          IN \A i \in Ids :
               LET limit == clients[i].traffic_limit
                   used == clients[i].traffic_used
               IN /\ limit.kind = "null" => i \notin found
                  /\ limit.kind = "int" /\ used = limit => i \in found
                  /\ limit.kind = "int" /\ used.gib = limit.gib
                        /\ used.rem = limit.rem - 1 => i \notin found
                  /\ limit = IntBytes(5, 0) /\ used = IntBytes(4, 1073741823)
                        => i \notin found
                  /\ limit.kind = "int"
                        => (i \in found)
                             = (used.gib > limit.gib
                                \/ (used.gib = limit.gib /\ used.rem >= limit.rem))
C29_EqualInOneBelowOut ==
    /\ last.op = "db.get_traffic_exceeded_clients"
    /\ \E i, j \in Ids :
          /\ clients[i].traffic_limit = IntBytes(0, 1000)
          /\ clients[i].traffic_used = IntBytes(0, 1000)
          /\ clients[j].traffic_limit = IntBytes(5, 0)
          /\ clients[j].traffic_used = IntBytes(4, 1073741823)
          /\ last.data = <<i>>

\* C30: when an administrator's block or unblock is refused by the
\* interface, the stored table is as it was: is_blocked keeps its value.
C30_FailedToggleKeepsRecord ==
    [][last'.op = "toggle_block" /\ last'.result = "failed"
          => /\ clients' = clients
             /\ clients'[last'.client].is_blocked
                  = clients[last'.client].is_blocked]_vars
C30_BlockRefusedByInterface ==
    /\ last.op = "toggle_block"
    /\ last.result = "failed"
    /\ last.arg = "block"
    /\ last.user \in admin_ids
    /\ HasClient(clients, last.client)
    /\ ~clients[last.client].is_blocked

\* C31: a text that a wizard step refuses (a bad or duplicate name, an empty
\* endpoint, a custom duration that is not an integer from 1 to 1000) leaves
\* the sender's conversation state, the data collected so far and the
\* clients table as they were, and a valid text sent next to the same step
\* is accepted.
InputOps == {"text:name", "text:endpoint", "text:custom_time_value"}
Rejections == {"invalid", "duplicate"}
C31_RejectedInputChangesNothing ==
    [][/\ (last'.op \in InputOps /\ last'.result \in Rejections)
            => /\ fsmState' = fsmState
               /\ fsmData' = fsmData
               /\ clients' = clients
               /\ nextId' = nextId
       /\ (/\ last.op \in InputOps
           /\ last.result \in Rejections
           /\ last'.op = last.op
           /\ last'.user = last.user)
            => /\ (last'.op = "text:name" /\ last'.data = T_ab
                     /\ \A i \in Ids : clients[i].name # T_ab)
                    => (last'.result = "ok"
                        /\ fsmData'[last'.user].name = T_ab)
               /\ (last'.op = "text:endpoint" /\ last'.data = T_host1)
                    => (last'.result = "ok"
                        /\ fsmData'[last'.user].endpoint = T_host1)
               /\ (last'.op = "text:custom_time_value" /\ last'.data = T_five)
                    => (last'.result = "ok"
                        /\ fsmData'[last'.user].expires_at = 5)]_vars
C31_DuplicateNameRefusedMidWizard ==
    /\ last.op = "text:name"
    /\ last.result = "duplicate"
    /\ fsmState[last.user] = "ClientStates:waiting_name"
    /\ fsmData[last.user].endpoint = T_host1
    /\ fsmData[last.user].name = T_ab

\* C32: whatever callbacks and texts users send, a client that the wizard
\* creates has a name that the name step accepted (2 to 32 characters, all of
\* them allowed) and an endpoint that is not empty.
C32_CreatedHasNameAndEndpoint ==
    [][(last'.op = "traffic_limit" /\ last'.result = "created")
          => LET c == clients'[last'.client]
             IN /\ NameLengthOk(c.name)
                /\ NameCharsOk(c.name)
                /\ c.endpoint \notin {<<>>, NoneText, AbsentText}]_vars

\* C33: the name step accepts a text, its surrounding blanks dropped, exactly
\* when it has 2 to 32 characters, each an ASCII letter, an ASCII digit, '-',
\* '_' or '.', and no stored client has that name; renaming applies the same
\* test, the renamed client's own name not counting as taken.
AsciiNameChars ==
    {"a", "b", "c", "d", "h", "x", "0", "1", "2", "5", "-", "_", "."}
WellFormedName(t) ==
    /\ Len(t) >= 2
    /\ Len(t) <= 32
    /\ \A k \in 1..Len(t) : t[k] \in AsciiNameChars
C33_NameAcceptedIffValid ==
    [][/\ last'.op = "text:name"
            => (last'.result = "ok")
                 = (/\ WellFormedName(Strip(last'.data))
                    /\ \A i \in Ids : clients[i].name # Strip(last'.data))
       /\ (last'.op = "text:new_name" /\ HasClient(clients, last'.client))
            => (last'.result = "ok")
                 = (/\ WellFormedName(Strip(last'.data))
                    /\ \A i \in Ids \ {last'.client} :
                          clients[i].name # Strip(last'.data))]_vars

\* C34: update_client writes only the mutable columns of the row whose id the
\* Client carries: that row's keys, ip_address and owner_id, every other row
\* and the connection rows stay as they were, and for an id no row has it
\* answers false and changes nothing.
ImmutableColumns(r) ==
    <<r.public_key, r.private_key, r.preshared_key, r.ip_address, r.owner_id>>
MutableColumns(r) ==
    <<r.name, r.endpoint, r.expires_at, r.traffic_limit, r.traffic_used,
      r.is_active, r.is_blocked, r.last_ip, r.daily_ips, r.ipv6_address,
      r.has_ipv6>>
C34_UpdateClientFrame ==
    [][last'.op = "db.update_client_object"
         => LET c == last'.data
            IN /\ DOMAIN clients' = DOMAIN clients
               /\ \A i \in DOMAIN clients \ {c.id} : clients'[i] = clients[i]
               /\ UNCHANGED <<nextId, ipConns, createdBy, livePeers>>
               /\ c.id \in DOMAIN clients
                    => /\ ImmutableColumns(clients'[c.id])
                          = ImmutableColumns(clients[c.id])
                       /\ last'.result # "false"
                       /\ last'.result = "true"
                            => MutableColumns(clients'[c.id]) = MutableColumns(c)
               /\ c.id \notin DOMAIN clients
                    => last'.result = "false" /\ clients' = clients]_vars
C34_UpdatedWithOtherKeys ==
    /\ last.op = "db.update_client_object"
    /\ last.result = "true"
    /\ Cardinality(DOMAIN clients) = 2
    /\ last.data.public_key # clients[last.client].public_key
    /\ last.data.owner_id # clients[last.client].owner_id
    /\ clients[last.client].is_blocked
    /\ \E r \in ipConns : r.client_id = last.client

\* C35: client_ip_connections never holds two rows of one (client_id,
\* ip_address, date); an observation of a key that has no row leaves exactly
\* one row of count 1 for it, an observation of a key that has a row adds one
\* to its count, and neither an observation nor a purge touches the rows of
\* the days the purge keeps, so the count of a row is the number of
\* observations since the key last had no row.
SameKey(r, id, ip, day) ==
    r.client_id = id /\ r.ip_address = ip /\ r.date = day
RowsOf(conns, id, ip, day) == {r \in conns : SameKey(r, id, ip, day)}
C35_OneRowCountsObservations ==
    [][/\ \A r \in ipConns' :
            RowsOf(ipConns', r.client_id, r.ip_address, r.date) = {r}
       /\ last'.op = "db.add_client_ip_connection"
            => LET id == last'.client
                   ip == last'.arg
                   day == last'.data
                   before == RowsOf(ipConns, id, ip, day)
               IN /\ \E r \in ipConns' :
                        /\ RowsOf(ipConns', id, ip, day) = {r}
                        /\ r.connection_count
                             = IF before = {} THEN 1
                               ELSE (CHOOSE b \in before : TRUE).connection_count
                                      + 1
                  /\ ipConns' \ RowsOf(ipConns', id, ip, day)
                       = ipConns \ before
       /\ last'.op = "db.cleanup_old_ip_connections"
            => /\ ipConns' \subseteq ipConns
               /\ \A r \in ipConns : r \in ipConns' <=> r.date >= last'.data]_vars
C35_CountedTwiceBesideOthers ==
    /\ last.op = "db.add_client_ip_connection"
    /\ \E r \in ipConns :
         /\ SameKey(r, last.client, last.arg, last.data)
         /\ r.connection_count = 2
    /\ \E r \in ipConns :
         /\ r.client_id = last.client /\ r.ip_address = last.arg
         /\ r.date # last.data
    /\ Cardinality(ipConns) >= 3

\* C36: when the wizard's data ask for IPv6, IPv6 is enabled, no IPv6 address
\* is free and an IPv4 address is, the final step stores the client with
\* has_ipv6 false and an empty ipv6_address and puts its key on the
\* interface (the apply command permitting).
C36_Ipv4OnlyWhenNoIpv6Free ==
    [][(/\ last'.op = "traffic_limit"
        /\ fsmData[last'.user].has_ipv6 = "yes"
        /\ ipv6_enabled
        /\ get_next_available_ipv6(clients) = ""
        /\ get_next_available_ip(clients) # ""
        /\ InsertAcceptedByName(clients,
                                [name |-> GetText(fsmData[last'.user].name)]))
         => /\ last'.result \in {"created", "apply_failed"}
            /\ last'.result = "created"
                 => /\ HasClient(clients', last'.client)
                    /\ ~clients'[last'.client].has_ipv6
                    /\ clients'[last'.client].ipv6_address = ""
                    /\ clients'[last'.client].ip_address
                         = get_next_available_ip(clients)
                    /\ clients'[last'.client].public_key \in livePeers']_vars

\* C37: a block that toggle_block has stored stays stored until the next
\* toggle_block of that client: no step of a client-detail view or of a
\* rename that runs beside it turns the stored is_blocked back to false.
C37_BlockSurvivesConcurrentHandlers ==
    [][\A id \in DOMAIN clients \cap DOMAIN clients' :
          (clients[id].is_blocked /\ ~clients'[id].is_blocked)
             => last'.op = "toggle_block"]_vars

\* C38: every key on the live interface is the stored public key of a client
\* that is not blocked: deleting, regenerating keys and restoring a backup
\* leave no peer behind, whatever the remove command answers.
C38_LivePeersAreStoredUnblocked ==
    \A key \in livePeers :
       \E i \in Ids : clients[i].public_key = key /\ ~clients[i].is_blocked

\* C39: of two add-client wizards whose final steps run side by side with
\* the same name or the same IPv4 address, at most one stores a client: no
\* two rows share a name or an ip_address and every live peer is a stored
\* key; the wizard whose INSERT is refused changes no row and no peer, has no
\* row and no peer of its key, reports the failure and ends with its
\* conversation cleared.
C39_RaceLoserLeavesNothing ==
    [][/\ \A i, j \in DOMAIN clients' :
            i # j => /\ clients'[i].name # clients'[j].name
                     /\ clients'[i].ip_address # clients'[j].ip_address
       /\ \A key \in livePeers' :
            \E i \in DOMAIN clients' : clients'[i].public_key = key
       /\ \A t \in Tasks :
            (/\ At(t, "traffic_limit:insert")
             /\ ~InsertAccepted(clients, running[t].client)
             /\ t \notin DOMAIN running')
              => /\ last'.op = "traffic_limit"
                 /\ last'.result = "error"
                 /\ UNCHANGED <<clients, livePeers>>
                 /\ running[t].client.public_key \notin livePeers'
                 /\ \A i \in DOMAIN clients' :
                      clients'[i].public_key # running[t].client.public_key
                 /\ fsmState'[running[t].user] = "none"
                 /\ fsmData'[running[t].user] = EmptyData]_vars
C39_LostOnSameAddress ==
    /\ last.op = "traffic_limit"
    /\ last.result = "error"
    /\ last.data.name # NoneText
    /\ \E i \in Ids :
         /\ clients[i].ip_address = last.data.ip_address
         /\ clients[i].name # last.data.name
         /\ clients[i].public_key # last.data.public_key
         /\ clients[i].public_key \in livePeers
    /\ fsmState[last.user] = "none"

\* C40: however many tasks meet the uninitialized pool at once, the
\* initialized pool has opened exactly pool_size pooled connections, and when
\* no task holds or opens one, _available holds exactly those.
C40_PoolSizeConnectionsAfterInit ==
    (/\ pool.initialized
     /\ \A t \in PoolTasks : pool.tasks[t].pc = "idle")
      => /\ Len(pool.connections) = PoolSize
         /\ Len(pool.available) = PoolSize
         /\ {pool.available[k] : k \in 1..Len(pool.available)}
              = {pool.connections[k] : k \in 1..Len(pool.connections)}

====
